---- MODULE Spec2Model ----
(***************************************************************************)
(* grabchars: the terminal input state machine.                            *)
(*   - mask mode            (src/src/mask.rs, run_mask_mode)               *)
(*   - line-editing loop    (src/src/main.rs, main, erase_active branch)   *)
(* Bytes and characters are integers (code points); a string is a sequence *)
(* of them.  Sequences are 1-based here, the source's vectors 0-based: an  *)
(* element index of the source is kept 0-based in mask_map, and mask[i+1]  *)
(* is the source's mask[i].                                                *)
(***************************************************************************)
EXTENDS Integers, Sequences, FiniteSets, TLC

VARIABLES
    mask_string,     \* the -m argument, <<>> when none
    mask,            \* compiled mask: sequence of MaskElement
    flags,           \* Flags record (the fields the loops read)
    valid_pattern,   \* -c bracket expression, <<>> when none
    exclude_pattern, \* -C bracket expression, <<>> when none
    default_string,  \* -d string, <<>> when none
    output_to_stderr, \* -e
    alarm_armed,     \* -t given: setup_alarm has scheduled SIGALRM
    how_many,        \* -n count of the main loop
    erase_active,    \* line editing is on (-E, or -n > 1)
    buffer,          \* Vec<u8>
    mask_map,        \* Vec<usize>, parallel to buffer (mask mode)
    cursor_pos,      \* cursor of the line-editing loop
    num_read,        \* count of the main loop
    TIMED_OUT,       \* AtomicBool set by alarm_handler
    EXIT_STAT,       \* AtomicI32
    pc,              \* "top": loop head, "read": blocked in read_key, "done"
    key,             \* the key the last read_key returned
    how,             \* how the loop ended ("running" while it has not)
    termios,         \* mode of the terminal: "raw" since init_term, "orig" once restored
    retval,          \* <<code>> once returned / exited, <<>> while running
    out,             \* bytes written to standard output
    tty,             \* the terminal as standard error paints it
    fed,             \* history: keys delivered so far (scenario runs only)
    stdin,           \* the input descriptor: bytes queued, bytes still to come
    rk,              \* the frame of a read_key call in progress
    keys             \* history: what each read_key call returned and consumed

vars == <<mask_string, mask, flags, valid_pattern, exclude_pattern, default_string,
          output_to_stderr, alarm_armed, how_many, erase_active, buffer, mask_map, cursor_pos, num_read,
          TIMED_OUT, EXIT_STAT, pc, key, how, termios, retval, out, tty, fed,
          stdin, rk, keys>>

rkvars == <<stdin, rk, keys>>

cfgvars == <<mask_string, mask, flags, valid_pattern, exclude_pattern, default_string,
             output_to_stderr, alarm_armed, how_many, erase_active>>

----------------------------------------------------------------------------
(* Bounds of the exploration                                               *)

MaxBuf == 3      \* most bytes a buffer holds beyond its mask's element count
MaxFed == 3      \* length up to which every key history of a scenario is run
MaxEdit == 2     \* largest -n of the line-editing loop
MaxMaskLen == 2  \* longest generated mask string
MaxOpts == 1     \* most command-line options set at once
TtyRows == 2     \* rows of the terminal below which it scrolls
MaxStream == 3   \* longest generated byte stream of the key decoder

----------------------------------------------------------------------------
(* Sequence helpers                                                        *)

Last(s) == s[Len(s)]
Front(s) == SubSeq(s, 1, Len(s) - 1)
Min(a, b) == IF a < b THEN a ELSE b
Max(a, b) == IF a > b THEN a ELSE b

\* number of entries of s equal to x
RECURSIVE CountEq(_, _)
CountEq(s, x) ==
    IF s = <<>> THEN 0
    ELSE (IF s[1] = x THEN 1 ELSE 0) + CountEq(Tail(s), x)

\* length of the run of x at the end of s
RECURSIVE TrailingRun(_, _)
TrailingRun(s, x) ==
    IF s = <<>> \/ Last(s) # x THEN 0
    ELSE 1 + TrailingRun(Front(s), x)

----------------------------------------------------------------------------
(* Characters                                                              *)

is_ascii_uppercase(ch) == ch \in 65..90
is_ascii_lowercase(ch) == ch \in 97..122
is_ascii_alphabetic(ch) == is_ascii_uppercase(ch) \/ is_ascii_lowercase(ch)
is_ascii_digit(ch) == ch \in 48..57
is_ascii_hexdigit(ch) == ch \in (48..57) \cup (65..70) \cup (97..102)
is_ascii_punctuation(ch) ==
    ch \in (33..47) \cup (58..64) \cup (91..96) \cup (123..126)
is_ascii_whitespace(ch) == ch \in {32, 9, 10, 12, 13}

\* char::to_uppercase().next() of a char made from one byte
to_uppercase(ch) ==
    IF ch \in 97..122 THEN ch - 32
    ELSE IF ch = 181 THEN 924
    ELSE IF ch = 223 THEN 83
    ELSE IF ch \in (224..254) \ {247} THEN ch - 32
    ELSE IF ch = 255 THEN 376
    ELSE ch

\* char::to_lowercase().next() of a char made from one byte
to_lowercase(ch) ==
    IF ch \in 65..90 THEN ch + 32
    ELSE IF ch \in (192..222) \ {215} THEN ch + 32
    ELSE ch

\* `ch as u8`
as_u8(ch) == ch % 256

----------------------------------------------------------------------------
(* Bracket expressions "[...]" as the regex "^[...]$" matches one char.    *)
(* Members are single characters and ranges a-b; a leading ^ negates; a    *)
(* ] right after the opening (or after ^) is a member.                     *)

BracketNegated(expr) == Len(expr) >= 3 /\ expr[2] = 94

BracketItems(expr) ==
    SubSeq(expr, (IF BracketNegated(expr) THEN 3 ELSE 2), Len(expr) - 1)

RECURSIVE ItemsValid(_)
ItemsValid(items) ==
    IF items = <<>> THEN TRUE
    ELSE IF Len(items) >= 3 /\ items[2] = 45
         THEN items[1] <= items[3] /\ ItemsValid(SubSeq(items, 4, Len(items)))
         ELSE ItemsValid(Tail(items))

RECURSIVE ItemsMatch(_, _)
ItemsMatch(items, ch) ==
    IF items = <<>> THEN FALSE
    ELSE IF Len(items) >= 3 /\ items[2] = 45
         THEN (items[1] <= ch /\ ch <= items[3])
              \/ ItemsMatch(SubSeq(items, 4, Len(items)), ch)
         ELSE items[1] = ch \/ ItemsMatch(Tail(items), ch)

\* regex::Regex::new("^[...]$") succeeds
regex_new_ok(expr) ==
    /\ Len(expr) >= 3
    /\ expr[1] = 91 /\ Last(expr) = 93
    /\ BracketItems(expr) # <<>>
    /\ ItemsValid(BracketItems(expr))

\* re.is_match(&ch.to_string())
is_match(expr, ch) ==
    IF BracketNegated(expr) THEN ~ItemsMatch(BracketItems(expr), ch)
    ELSE ItemsMatch(BracketItems(expr), ch)

----------------------------------------------------------------------------
(* Mask compilation                                                        *)

Element(c, l, e, q) == [class |-> c, lit |-> l, expr |-> e, quantifier |-> q]

IsQuantChar(ch) == ch \in {42, 43, 63}                     \* '*' '+' '?'

QuantOf(ch) ==
    IF ch = 42 THEN "Star" ELSE IF ch = 43 THEN "Plus" ELSE "Optional"

ClassOfChar(ch) ==
    IF ch = 85 THEN "Upper"                                 \* U
    ELSE IF ch = 108 THEN "Lower"                           \* l
    ELSE IF ch = 99 THEN "Alpha"                            \* c
    ELSE IF ch = 110 THEN "Digit"                           \* n
    ELSE IF ch = 120 THEN "Hex"                             \* x
    ELSE IF ch = 112 THEN "Punct"                           \* p
    ELSE IF ch = 87 THEN "Whitespace"                       \* W
    ELSE IF ch = 46 THEN "Any"                              \* .
    ELSE "Literal"

\* index of the first ']' of chars at or after j, Len(chars)+1 when none
RECURSIVE ScanBracket(_, _)
ScanBracket(chars, j) ==
    IF j > Len(chars) \/ chars[j] = 93 THEN j ELSE ScanBracket(chars, j + 1)

ParseFail == [ok |-> FALSE, elements |-> <<>>]

\* mutant: a quantifier character where an element is expected is taken as a
\* literal
ParseOne_lax(chars, i) ==
    LET ch == chars[i] IN
    IF ch = 92 THEN
        [ok |-> TRUE,
         push |-> IF i + 1 <= Len(chars)
                  THEN <<Element("Literal", chars[i + 1], <<>>, "One")>>
                  ELSE <<>>,
         is_literal |-> TRUE,
         next |-> i + 2]
    ELSE IF ch = 91 THEN
        LET j0 == IF i + 1 <= Len(chars) /\ chars[i + 1] \in {94, 93}
                  THEN i + 2 ELSE i + 1
            j == ScanBracket(chars, j0)
            bracket_expr == SubSeq(chars, i, j)
        IN IF j > Len(chars) \/ ~regex_new_ok(bracket_expr)
           THEN [ok |-> FALSE, push |-> <<>>, is_literal |-> FALSE, next |-> i]
           ELSE [ok |-> TRUE,
                 push |-> <<Element("Custom", 0, bracket_expr, "One")>>,
                 is_literal |-> FALSE,
                 next |-> j + 1]
    ELSE
        LET class == ClassOfChar(ch) IN
        [ok |-> TRUE,
         push |-> <<Element(class, (IF class = "Literal" THEN ch ELSE 0), <<>>, "One")>>,
         is_literal |-> class = "Literal",
         next |-> i + 1]

\* one turn of the while loop of parse_mask at (1-based) position i:
\* the element it pushes (a sequence of 0 or 1 elements), whether it was a
\* literal, and the position after it; ok = FALSE is process::exit(255)
ParseOne(chars, i) ==
    LET ch == chars[i] IN
    IF IsQuantChar(ch) THEN [ok |-> FALSE, push |-> <<>>, is_literal |-> FALSE, next |-> i]
    ELSE IF ch = 92 THEN
        [ok |-> TRUE,
         push |-> IF i + 1 <= Len(chars)
                  THEN <<Element("Literal", chars[i + 1], <<>>, "One")>>
                  ELSE <<>>,
         is_literal |-> TRUE,
         next |-> i + 2]
    ELSE IF ch = 91 THEN
        LET j0 == IF i + 1 <= Len(chars) /\ chars[i + 1] \in {94, 93}
                  THEN i + 2 ELSE i + 1
            j == ScanBracket(chars, j0)
            bracket_expr == SubSeq(chars, i, j)
        IN IF j > Len(chars) \/ ~regex_new_ok(bracket_expr)
           THEN [ok |-> FALSE, push |-> <<>>, is_literal |-> FALSE, next |-> i]
           ELSE [ok |-> TRUE,
                 push |-> <<Element("Custom", 0, bracket_expr, "One")>>,
                 is_literal |-> FALSE,
                 next |-> j + 1]
    ELSE
        LET class == ClassOfChar(ch) IN
        [ok |-> TRUE,
         push |-> <<Element(class, (IF class = "Literal" THEN ch ELSE 0), <<>>, "One")>>,
         is_literal |-> class = "Literal",
         next |-> i + 1]

RECURSIVE ParseFrom(_, _, _)
ParseFrom(chars, i, elements) ==
    IF i > Len(chars) THEN [ok |-> TRUE, elements |-> elements]
    ELSE LET one == ParseOne(chars, i) IN
         IF ~one.ok THEN ParseFail
         ELSE LET els == elements \o one.push
                  n == one.next
              IN IF n <= Len(chars) /\ IsQuantChar(chars[n])
                 THEN IF one.is_literal THEN ParseFail
                      ELSE ParseFrom(chars, n + 1,
                              [els EXCEPT ![Len(els)].quantifier = QuantOf(chars[n])])
                 ELSE ParseFrom(chars, n, els)

parse_mask(mask_str) == ParseFrom(mask_str, 1, <<>>)

----------------------------------------------------------------------------
(* Mask matching helpers                                                   *)

IsLiteral(elem) == elem.class = "Literal"

mask_char_matches(elem, ch) ==
    CASE elem.class = "Upper" -> is_ascii_uppercase(ch)
      [] elem.class = "Lower" -> is_ascii_lowercase(ch)
      [] elem.class = "Alpha" -> is_ascii_alphabetic(ch)
      [] elem.class = "Digit" -> is_ascii_digit(ch)
      [] elem.class = "Hex" -> is_ascii_hexdigit(ch)
      [] elem.class = "Punct" -> is_ascii_punctuation(ch)
      [] elem.class = "Whitespace" -> is_ascii_whitespace(ch)
      [] elem.class = "Any" -> TRUE
      [] elem.class = "Custom" -> is_match(elem.expr, ch)
      [] elem.class = "Literal" -> ch = elem.lit

\* (idx, count): the element of the last entry and the run of it at the end
current_mask_state(m, mm) ==
    IF mm = <<>> THEN [idx |-> 0, count |-> 0]
    ELSE [idx |-> Last(mm), count |-> TrailingRun(mm, Last(mm))]

\* mutant: an element that does not match is skipped whatever its minimum
RECURSIVE try_advance_any(_, _, _)
try_advance_any(m, from_idx, ch) ==
    IF from_idx >= Len(m) THEN -1
    ELSE IF ~IsLiteral(m[from_idx + 1]) /\ mask_char_matches(m[from_idx + 1], ch)
         THEN from_idx
         ELSE try_advance_any(m, from_idx + 1, ch)

\* 0-based index of the element that accepts ch, -1 for None
RECURSIVE try_advance(_, _, _)
try_advance(m, from_idx, ch) ==
    IF from_idx >= Len(m) THEN -1
    ELSE LET e == m[from_idx + 1] IN
         IF IsLiteral(e) THEN try_advance(m, from_idx + 1, ch)
         ELSE IF mask_char_matches(e, ch) THEN from_idx
         ELSE IF e.quantifier \in {"Star", "Optional"}
              THEN try_advance(m, from_idx + 1, ch)
              ELSE -1

QuantMin(q) == IF q \in {"One", "Plus"} THEN 1 ELSE 0

mask_satisfied(m, mm) ==
    \A i \in 1..Len(m) :
        IsLiteral(m[i]) \/ CountEq(mm, i - 1) >= QuantMin(m[i].quantifier)

\* mutant: only ZeroOrMore counts as unbounded
mask_has_unbounded_star(m) ==
    \E i \in 1..Len(m) : m[i].quantifier = "Star"

mask_has_unbounded(m) ==
    \E i \in 1..Len(m) : m[i].quantifier \in {"Star", "Plus"}

----------------------------------------------------------------------------
(* The terminal that standard error paints: rows of cells, a cursor.       *)
(* Column 0 is the start of the input field.                               *)

TtyInit == [lines |-> << <<>> >>, row |-> 1, col |-> 0]

Spaces(n) == [i \in 1..n |-> 32]

\* one character written at the cursor; LF moves to the start of the next row
\* (the output side of the terminal is left cooked), scrolling at the last row
tty_put(t, b) ==
    IF b = 10
    THEN IF t.row = TtyRows
         THEN [lines |-> Append(Tail(t.lines), <<>>), row |-> t.row, col |-> 0]
         ELSE [lines |-> IF t.row = Len(t.lines) THEN Append(t.lines, <<>>) ELSE t.lines,
               row |-> t.row + 1,
               col |-> 0]
    ELSE LET line == t.lines[t.row]
             padded == IF t.col > Len(line)
                       THEN line \o Spaces(t.col - Len(line)) ELSE line
             written == IF t.col < Len(padded)
                        THEN [padded EXCEPT ![t.col + 1] = b]
                        ELSE Append(padded, b)
         IN [t EXCEPT !.lines[t.row] = written, !.col = t.col + 1]

RECURSIVE tty_write(_, _)
tty_write(t, s) ==
    IF s = <<>> THEN t ELSE tty_write(tty_put(t, s[1]), Tail(s))

\* mutant: the cursor moves one column whatever the parameter
cursor_left_n_one(t, n) == [t EXCEPT !.col = Max(0, t.col - 1)]

\* CSI n D; a parameter of 0 moves one column, as terminals take it
cursor_left_n(t, n) == [t EXCEPT !.col = Max(0, t.col - Max(n, 1))]

\* CSI n C
cursor_right_n(t, n) == [t EXCEPT !.col = t.col + Max(n, 1)]

CURSOR_LEFT(t) == cursor_left_n(t, 1)
CURSOR_RIGHT(t) == cursor_right_n(t, 1)

CLEAR_TO_EOL(t) ==
    [t EXCEPT !.lines[t.row] = SubSeq(t.lines[t.row], 1, Min(t.col, Len(t.lines[t.row])))]

\* io = [out, tty]: standard output and the terminal on standard error
output_str(io, s, to_stderr, both) ==
    IF to_stderr
    THEN [out |-> IF both THEN io.out \o s ELSE io.out, tty |-> tty_write(io.tty, s)]
    ELSE [out |-> io.out \o s, tty |-> IF both THEN tty_write(io.tty, s) ELSE io.tty]

----------------------------------------------------------------------------
(* Keys (KeyInput)                                                         *)

Key(t) == [t |-> t, b |-> 0]
Char(b) == [t |-> "Char", b |-> b]
NoKey == Key("None")

\* -c / -C as the loops apply them to a character
passes_filters(ch) ==
    /\ ~(flags.check /\ valid_pattern # <<>> /\ ~is_match(valid_pattern, ch))
    /\ ~(flags.exclude /\ exclude_pattern # <<>> /\ is_match(exclude_pattern, ch))

\* -U / -L
case_map(ch) ==
    LET u == IF flags.upper THEN to_uppercase(ch) ELSE ch
    IN IF flags.lower THEN to_lowercase(u) ELSE u

\* handle_default: what it writes, and the EXIT_STAT it stores
handle_default(io) ==
    IF ~flags.silent
    THEN output_str(io, default_string, output_to_stderr, flags.both \/ flags.ret_key)
    ELSE io

----------------------------------------------------------------------------
(* The key decoder: read_key and parse_escape_seq.  A call in progress is  *)
(* the frame rk = [at, b3, taken, had, nobyte]: at is the read or poll the *)
(* call stands at, taken the bytes it has consumed, had the bytes queued   *)
(* when its first byte was read, nobyte whether poll reported no byte.     *)

\* io::Error kinds read_byte returns
Err(kind) == [t |-> kind, b |-> 0]
\* "Other" is any errno but EINTR (last_os_error, line 67)
ErrKinds == {"Interrupted", "UnexpectedEof", "Other"}

\* the outcome of one read_byte
ByteOk(b) == [ok |-> TRUE, b |-> b, kind |-> ""]
ByteErr(kind) == [ok |-> FALSE, b |-> 0, kind |-> kind]

RkIdle == [at |-> "idle", b3 |-> 0, taken |-> <<>>, had |-> <<>>, nobyte |-> FALSE]

\* what a step of the decoder decides: return a key, or go on to another read
Return(k) == [ret |-> TRUE, key |-> k, at |-> "idle", b3 |-> 0]
Goto(at, b3) == [ret |-> FALSE, key |-> NoKey, at |-> at, b3 |-> b3]

\* mutant: no control byte is mapped
read_key_raw(r) ==
    IF ~r.ok THEN Return(Err(r.kind))
    ELSE IF r.b = 27 THEN Goto("poll", 0)
    ELSE Return(Char(r.b))

\* lines 40-55: the first byte
read_key(r) ==
    IF ~r.ok THEN Return(Err(r.kind))
    ELSE CASE r.b = 1 -> Return(Key("Home"))
           [] r.b = 2 -> Return(Key("Left"))
           [] r.b = 4 -> Return(Key("Delete"))
           [] r.b = 5 -> Return(Key("End"))
           [] r.b = 6 -> Return(Key("Right"))
           [] r.b = 11 -> Return(Key("KillToEnd"))
           [] r.b = 21 -> Return(Key("KillToStart"))
           [] r.b = 23 -> Return(Key("KillWordBack"))
           [] r.b = 9 -> Return(Key("Tab"))
           [] r.b \in {127, 8} -> Return(Key("Backspace"))
           [] r.b \in {10, 13} -> Return(Key("Enter"))
           [] r.b = 27 -> Goto("poll", 0)
           [] OTHER -> Return(Char(r.b))

\* mutant: the follow-up byte is read whether or not poll reported one
after_byte_available_blocking(avail) == Goto("b2", 0)

\* lines 83-85: byte_available(fd, 50) has answered
after_byte_available(avail) ==
    IF ~avail THEN Return(Key("Escape")) ELSE Goto("b2", 0)

\* mutant: every digit after ESC '[' is taken as final
parse_escape_seq_short(f, r) ==
    IF ~r.ok THEN Return(Key("Unknown"))
    ELSE CASE f.at = "b2" -> IF r.b # 91 THEN Return(Key("Unknown")) ELSE Goto("b3", 0)
           [] f.at = "b3" /\ r.b = 65 -> Return(Key("Up"))
           [] OTHER -> Return(Key("Unknown"))

\* lines 86-128: a read of parse_escape_seq has answered
parse_escape_seq(f, r) ==
    CASE f.at = "b2" ->
             IF ~r.ok THEN Return(Key("Escape"))
             ELSE IF r.b # 91 THEN Return(Key("Unknown"))
             ELSE Goto("b3", 0)
      [] f.at = "b3" ->
             IF ~r.ok THEN Return(Key("Unknown"))
             ELSE CASE r.b = 65 -> Return(Key("Up"))
                    [] r.b = 66 -> Return(Key("Down"))
                    [] r.b = 67 -> Return(Key("Right"))
                    [] r.b = 68 -> Return(Key("Left"))
                    [] r.b = 72 -> Return(Key("Home"))
                    [] r.b = 70 -> Return(Key("End"))
                    [] r.b \in {49, 51, 52} -> Goto("b4", r.b)
                    [] OTHER -> IF is_ascii_digit(r.b)
                                THEN Goto("tail", r.b)
                                ELSE Return(Key("Unknown"))
      [] f.at = "b4" ->
             IF ~r.ok THEN Return(Key("Unknown"))
             ELSE IF r.b = 126
                  THEN CASE f.b3 = 51 -> Return(Key("Delete"))
                         [] f.b3 = 49 -> Return(Key("Home"))
                         [] f.b3 = 52 -> Return(Key("End"))
                         [] OTHER -> Return(Key("Unknown"))
                  ELSE Return(Key("Unknown"))
      [] f.at = "tail" -> Return(Key("Unknown"))

\* the loops' specifications take read_key as one step: no bytes, no call
NoInput == [inq |-> <<>>, later |-> <<>>, closed |-> FALSE]
KeysIdle == stdin = NoInput /\ rk = RkIdle /\ keys = <<>>

\* the positions of a call at which it stands in read_byte
ReadPositions == {"b", "b2", "b3", "b4", "tail"}

----------------------------------------------------------------------------
(* Mask mode: the state the key handlers change is st = [buffer, mask_map, *)
(* tty].                                                                   *)

Echo(t, ch, silent) == IF silent THEN t ELSE tty_put(t, ch)

Push(st, b, idx, silent) ==
    [buffer |-> Append(st.buffer, as_u8(b)),
     mask_map |-> Append(st.mask_map, idx),
     tty |-> Echo(st.tty, b, silent)]

\* mutant: no literal is spliced in
mask_auto_insert_literals_none(m, st, from_idx, silent) == st

RECURSIVE mask_auto_insert_literals(_, _, _, _)
mask_auto_insert_literals(m, st, from_idx, silent) ==
    IF from_idx < Len(m) /\ IsLiteral(m[from_idx + 1])
    THEN mask_auto_insert_literals(m, Push(st, m[from_idx + 1].lit, from_idx, silent),
                                   from_idx + 1, silent)
    ELSE st

\* lines 390-398: the literals among elements li..new_idx-1
RECURSIVE InsertLiteralsUpTo(_, _, _, _, _)
InsertLiteralsUpTo(m, st, li, new_idx, silent) ==
    IF li >= new_idx THEN st
    ELSE InsertLiteralsUpTo(m,
            (IF IsLiteral(m[li + 1]) THEN Push(st, m[li + 1].lit, li, silent) ELSE st),
            li + 1, new_idx, silent)

\* mutant: the count already consumed is not looked at
can_accept_more_any(m, idx, count) == idx < Len(m)

can_accept_more(m, idx, count) ==
    IF idx < Len(m)
    THEN (m[idx + 1].quantifier \in {"One", "Optional"} => count < 1)
    ELSE FALSE

\* mutant: every element must hold a character before it is left
min_satisfied_strict(m, idx, count) ==
    IF idx < Len(m) THEN count >= 1 ELSE TRUE

min_satisfied(m, idx, count) ==
    IF idx < Len(m)
    THEN (m[idx + 1].quantifier \in {"One", "Plus"} => count >= 1)
    ELSE TRUE

\* mutant: the literals after the element are spliced in whatever its
\* quantifier
AcceptCurrent_always(m, st, ch, idx, silent) ==
    mask_auto_insert_literals(m, Push(st, ch, idx, silent), idx + 1, silent)

\* lines 358-375: greedy acceptance at the current element
AcceptCurrent(m, st, ch, idx, silent) ==
    LET st1 == Push(st, ch, idx, silent)
        is_full == m[idx + 1].quantifier \in {"One", "Optional"}
    IN IF is_full THEN mask_auto_insert_literals(m, st1, idx + 1, silent) ELSE st1

\* mutant: the literals after the current element are spliced in before
\* try_advance is asked
AcceptAdvance_eager(m, st, ch, idx, silent) ==
    LET advance_from == IF idx < Len(m) THEN idx + 1 ELSE Len(m)
        new_idx == try_advance(m, advance_from, ch)
        st1 == mask_auto_insert_literals(m, st, advance_from, silent)
    IN IF new_idx = -1 THEN st1
       ELSE LET st3 == Push(st1, ch, new_idx, silent)
            IN IF m[new_idx + 1].quantifier \in {"One", "Optional"}
               THEN mask_auto_insert_literals(m, st3, new_idx + 1, silent)
               ELSE st3

\* lines 376-415: acceptance at a later element, st unchanged on rejection
AcceptAdvance(m, st, ch, idx, silent) ==
    LET advance_from == IF idx < Len(m) THEN idx + 1 ELSE Len(m)
        new_idx == try_advance(m, advance_from, ch)
    IN IF new_idx = -1 THEN st
       ELSE LET st1 == mask_auto_insert_literals(m, st, advance_from, silent)
                last_map == IF st1.mask_map = <<>> THEN 0 ELSE Last(st1.mask_map)
                start == IF st1.mask_map = <<>> THEN 0 ELSE last_map + 1
                st2 == IF last_map < new_idx
                       THEN InsertLiteralsUpTo(m, st1, start, new_idx, silent)
                       ELSE st1
                st3 == Push(st2, ch, new_idx, silent)
            IN IF m[new_idx + 1].quantifier \in {"One", "Optional"}
               THEN mask_auto_insert_literals(m, st3, new_idx + 1, silent)
               ELSE st3

\* lines 327-418: a character that passed case mapping and the filters
MaskChar(m, st, ch, silent) ==
    LET cs == current_mask_state(m, st.mask_map)
        matches_current == /\ can_accept_more(m, cs.idx, cs.count)
                           /\ cs.idx < Len(m)
                           /\ mask_char_matches(m[cs.idx + 1], ch)
    IN IF matches_current THEN AcceptCurrent(m, st, ch, cs.idx, silent)
       ELSE IF min_satisfied(m, cs.idx, cs.count)
            THEN AcceptAdvance(m, st, ch, cs.idx, silent)
            ELSE st

Pop(st, silent) ==
    [buffer |-> Front(st.buffer),
     mask_map |-> Front(st.mask_map),
     tty |-> IF silent THEN st.tty ELSE CLEAR_TO_EOL(CURSOR_LEFT(st.tty))]

\* mutant: Backspace removes one entry and never a literal with it
ChainDelete_none(m, st, silent) == st

\* lines 430-459: the chain-delete loop
RECURSIVE ChainDelete(_, _, _)
ChainDelete(m, st, silent) ==
    IF st.buffer = <<>> THEN st
    ELSE IF IsLiteral(m[Last(st.mask_map) + 1])
         THEN LET all_literals ==
                      \A i \in 1..Len(st.mask_map) : IsLiteral(m[st.mask_map[i] + 1])
                  st1 == Pop(st, silent)
              IN IF all_literals THEN ChainDelete(m, st1, silent)
                 ELSE IF st1.buffer # <<>> /\ IsLiteral(m[Last(st1.mask_map) + 1])
                      THEN ChainDelete(m, st1, silent)
                      ELSE st1
         ELSE st

\* lines 420-461
MaskBackspace(m, st, silent) ==
    IF st.buffer # <<>> THEN ChainDelete(m, Pop(st, silent), silent) ELSE st

\* mutant: both end-of-mask tests are off by one
mask_complete_late(m, buf, mm) ==
    LET cs == current_mask_state(m, mm)
        past_end == IF mm = <<>>
                    THEN m = <<>> \/ \A i \in 1..Len(m) : IsLiteral(m[i])
                    ELSE cs.idx >= Len(m) /\ cs.count >= 1
    IN /\ ~mask_has_unbounded(m)
       /\ \/ (Len(buf) > Len(m) /\ \A i \in 1..Len(m) : m[i].quantifier = "One")
          \/ (past_end /\ mask_satisfied(m, mm))

\* lines 253-276: the completion check at the head of the loop
mask_complete(m, buf, mm) ==
    LET has_unbounded == mask_has_unbounded(m)
        cs == current_mask_state(m, mm)
        past_end == IF mm = <<>>
                    THEN m = <<>> \/ \A i \in 1..Len(m) : IsLiteral(m[i])
                    ELSE /\ cs.idx >= Len(m) - 1
                         /\ cs.count >= 1
                         /\ m[cs.idx + 1].quantifier = "One"
                         /\ cs.idx = Len(m) - 1
    IN /\ ~has_unbounded
       /\ \/ (Len(buf) >= Len(m) /\ \A i \in 1..Len(m) : m[i].quantifier = "One")
          \/ (past_end /\ mask_satisfied(m, mm))

----------------------------------------------------------------------------
(* Command lines                                                           *)

\* the options run_mask_mode reads; "Z" stands for -Z0
MaskOpts == {"b", "c", "C", "d", "e", "r", "s", "t", "U", "L"}
MainOpts == MaskOpts \cup {"Z"}

\* command lines of more than MaxOpts options that are run as well
NamedOptSets ==
    { {"U", "c"}, {"L", "c"}, {"c", "C"}, {"r", "d"}, {"t", "d"}, {"s", "e"},
      {"b", "e"}, {"r", "s"} }

\* -U and -L clear each other, so both flags are never set together
OptSets(opts) ==
    {S \in SUBSET opts : /\ Cardinality(S) <= MaxOpts \/ S \in NamedOptSets
                         /\ ~({"U", "L"} \subseteq S)}

FlagsOf(S) ==
    [both |-> "b" \in S, check |-> "c" \in S, exclude |-> "C" \in S,
     dflt |-> "d" \in S, ret_key |-> "r" \in S, silent |-> "s" \in S,
     lower |-> "L" \in S, upper |-> "U" \in S, trailing_newline |-> "Z" \notin S]

ValidPatterns == { <<91, 97, 101, 105, 111, 117, 93>>,      \* -c "[aeiou]"
                   <<91, 48, 45, 57, 65, 93>> }             \* -c "0-9A"
ExcludePatterns == { <<91, 120, 53, 93>> }                  \* -C "x5"
DefaultStrings == { <<110, 111>> }                          \* -d "no"

\* the configuration variables of a command line with the options S
ConfigInit(S) ==
    /\ flags = FlagsOf(S)
    /\ valid_pattern \in (IF "c" \in S THEN ValidPatterns ELSE { <<>> })
    /\ exclude_pattern \in (IF "C" \in S THEN ExcludePatterns ELSE { <<>> })
    /\ default_string \in (IF "d" \in S THEN DefaultStrings ELSE { <<>> })
    /\ output_to_stderr = ("e" \in S)
    /\ alarm_armed = ("t" \in S)
    /\ TIMED_OUT = FALSE
    /\ EXIT_STAT = -1
    /\ key = NoKey
    /\ how = "running"
    /\ termios = "raw"
    /\ retval = <<>>
    /\ out = <<>>
    /\ fed = <<>>

----------------------------------------------------------------------------
(* Mask mode: run_mask_mode                                                *)

MaskAlphabet == {110, 85, 45, 63, 43}                       \* n U - ? +

GeneratedMaskStrings ==
    UNION {[1..n -> MaskAlphabet] : n \in 1..MaxMaskLen}

NamedMaskStrings ==
    { <<110, 110, 110, 45, 110>>,                           \* "nnn-n"
      <<91, 48, 45, 57, 93, 63, 120>>,                      \* "[0-9]?x"
      <<110, 42, 45, 85>>,                                  \* "n*-U"
      <<40, 110, 41, 110>>,                                 \* "(n)n"
      <<92, 110, 46, 63, 99>>,                              \* "\n.?c"
      <<110, 63, 45, 45, 108, 42>>,                         \* "n?--l*"
      <<110, 85, 110>>,                                     \* "nUn"
      <<8364, 110>>,                                        \* U+20AC "n"
      <<91, 94, 97, 45, 122, 93>> }                         \* "[^a-z]"

\* the masks of the loops on a byte stream
RunMaskStrings ==
    { <<110, 110>>,                                         \* "nn"
      <<110, 45, 110>>,                                     \* "n-n"
      <<110, 42>> }                                         \* "n*"

\* the masks of the scenarios
ScenarioStrings ==
    { <<110, 110, 110, 45, 110, 110, 110, 110>>,            \* "nnn-nnnn"
      <<110, 110, 110, 45, 110>>,                           \* "nnn-n"
      <<85, 43>>,                                           \* "U+"
      <<91, 48, 45, 57, 93, 63, 120>>,                      \* "[0-9]?x"
      <<110, 42, 45, 85>> }                                 \* "n*-U"

\* the -m arguments that compile to the mask m
StringsOf(m) ==
    {str \in GeneratedMaskStrings \cup NamedMaskStrings \cup RunMaskStrings
                \cup ScenarioStrings :
        parse_mask(str).ok /\ parse_mask(str).elements = m}

\* main compiles the mask and refuses an empty one
Compiled(strings) ==
    {parse_mask(str).elements :
        str \in {x \in strings : parse_mask(x).ok /\ parse_mask(x).elements # <<>>}}

MaskKeyBytes == {53, 65, 97, 120, 45, 255}                  \* 5 A a x - 0xFF

MaskKeys ==
    {Char(b) : b \in MaskKeyBytes}
        \cup {Key("Backspace"), Key("Enter"), Key("Escape"), Key("Left")}

CurSt == [buffer |-> buffer, mask_map |-> mask_map, tty |-> tty]

SetSt(st) ==
    /\ buffer' = st.buffer
    /\ mask_map' = st.mask_map
    /\ tty' = st.tty

\* String::from_utf8_lossy of single bytes: a byte that is not ASCII is
\* shown as U+FFFD
from_utf8_lossy(buf) == [i \in 1..Len(buf) |-> IF buf[i] < 128 THEN buf[i] ELSE 65533]

\* lines 244-249: the state at the first turn of the loop
MaskStart(masks) ==
    /\ KeysIdle
    /\ mask \in masks
    /\ mask_string \in StringsOf(mask)
    /\ \E S \in OptSets(MaskOpts) : ConfigInit(S)
    /\ how_many = 1
    /\ erase_active = FALSE
    /\ cursor_pos = 0
    /\ num_read = 0
    /\ LET st == mask_auto_insert_literals(mask,
                    [buffer |-> <<>>, mask_map |-> <<>>, tty |-> TtyInit], 0, flags.silent)
       IN buffer = st.buffer /\ mask_map = st.mask_map /\ tty = st.tty
    /\ pc = "top"

\* lines 499-505: after the loop
MaskBreak(why) ==
    LET io == IF buffer # <<>>
              THEN output_str([out |-> out, tty |-> tty], from_utf8_lossy(buffer),
                              output_to_stderr, flags.both)
              ELSE [out |-> out, tty |-> tty]
    IN /\ out' = io.out
       /\ tty' = io.tty
       /\ retval' = <<Len(buffer)>>
       /\ how' = why
       /\ termios' = "orig"
       /\ pc' = "done"
       /\ UNCHANGED <<buffer, mask_map, EXIT_STAT>>

\* lines 280-285 / 463-468: the default is returned
MaskDefault ==
    LET io == handle_default([out |-> out, tty |-> tty])
    IN /\ out' = io.out
       /\ tty' = io.tty
       /\ EXIT_STAT' = Len(default_string)
       /\ retval' = <<Len(default_string)>>
       /\ how' = "default"
       /\ termios' = "orig"
       /\ pc' = "done"
       /\ UNCHANGED <<buffer, mask_map>>

MaskContinue ==
    /\ pc' = "top"
    /\ UNCHANGED <<how, termios, retval, out, EXIT_STAT>>

\* lines 252-276: the mask is complete, the loop is left
MaskComplete ==
    /\ pc = "top"
    /\ mask_complete(mask, buffer, mask_map)
    /\ MaskBreak("complete")
    /\ UNCHANGED <<cfgvars, rkvars, cursor_pos, num_read, TIMED_OUT, key, fed>>

\* lines 278-292: the timed-out flag is found set
MaskTimeout ==
    /\ pc = "top"
    /\ ~mask_complete(mask, buffer, mask_map)
    /\ TIMED_OUT
    /\ IF flags.dflt /\ buffer = <<>> /\ default_string # <<>>
       THEN MaskDefault
       ELSE LET io == IF buffer # <<>>
                      THEN output_str([out |-> out, tty |-> tty], from_utf8_lossy(buffer),
                                      output_to_stderr, flags.both)
                      ELSE [out |-> out, tty |-> tty]
            IN /\ out' = io.out
               /\ tty' = io.tty
               /\ retval' = <<-2>>
               /\ how' = "timeout"
               /\ termios' = "orig"
               /\ pc' = "done"
               /\ UNCHANGED <<buffer, mask_map, EXIT_STAT>>
    /\ UNCHANGED <<cfgvars, rkvars, cursor_pos, num_read, TIMED_OUT, key, fed>>

\* mutant: read_key is called without a look at the flag
MaskRead_unchecked ==
    /\ pc = "top"
    /\ ~mask_complete(mask, buffer, mask_map)
    /\ pc' = "read"
    /\ UNCHANGED <<cfgvars, rkvars, buffer, mask_map, cursor_pos, num_read, TIMED_OUT,
                   EXIT_STAT, key, how, termios, retval, out, tty, fed>>

\* line 294: read_key is called
MaskRead ==
    /\ pc = "top"
    /\ ~mask_complete(mask, buffer, mask_map)
    /\ ~TIMED_OUT
    /\ pc' = "read"
    /\ UNCHANGED <<cfgvars, rkvars, buffer, mask_map, cursor_pos, num_read, TIMED_OUT,
                   EXIT_STAT, key, how, termios, retval, out, tty, fed>>

\* lines 301-419
MaskKeyChar(k) ==
    LET ch == case_map(k.b)
    IN /\ IF passes_filters(ch)
          THEN SetSt(MaskChar(mask, CurSt, ch, flags.silent))
          ELSE UNCHANGED <<buffer, mask_map, tty>>
       /\ MaskContinue

\* lines 462-483
MaskKeyEnter ==
    IF flags.dflt /\ buffer = <<>> /\ default_string # <<>>
    THEN MaskDefault
    ELSE IF flags.ret_key
         THEN IF mask_satisfied(mask, mask_map) \/ buffer = <<>>
              THEN MaskBreak("enter")
              ELSE MaskContinue /\ UNCHANGED <<buffer, mask_map, tty>>
         ELSE IF ~mask_has_unbounded(mask)
              THEN MaskContinue /\ UNCHANGED <<buffer, mask_map, tty>>
              ELSE IF mask_satisfied(mask, mask_map) /\ buffer # <<>>
                   THEN MaskBreak("enter")
                   ELSE MaskContinue /\ UNCHANGED <<buffer, mask_map, tty>>

\* mutant: Escape returns the count of characters like a normal ending
MaskKeyEscape_count ==
    /\ tty' = IF ~flags.silent /\ buffer # <<>>
              THEN CLEAR_TO_EOL(cursor_left_n(tty, Len(buffer)))
              ELSE tty
    /\ retval' = <<Len(buffer)>>
    /\ how' = "escape"
    /\ termios' = "orig"
    /\ pc' = "done"
    /\ UNCHANGED <<buffer, mask_map, out, EXIT_STAT>>

\* lines 484-493
MaskKeyEscape ==
    /\ tty' = IF ~flags.silent /\ buffer # <<>>
              THEN CLEAR_TO_EOL(cursor_left_n(tty, Len(buffer)))
              ELSE tty
    /\ retval' = <<-1>>
    /\ how' = "escape"
    /\ termios' = "orig"
    /\ pc' = "done"
    /\ UNCHANGED <<buffer, mask_map, out, EXIT_STAT>>

\* lines 294-497: read_key returns the key k and the match handles it
MaskKey(k) ==
    /\ pc = "read"
    /\ k.t = "Char" => Len(buffer) < Len(mask) + MaxBuf
    /\ key' = k
    /\ CASE k.t = "Char" -> MaskKeyChar(k)
         [] k.t = "Backspace" ->
                SetSt(MaskBackspace(mask, CurSt, flags.silent)) /\ MaskContinue
         [] k.t = "Enter" -> MaskKeyEnter
         [] k.t = "Escape" -> MaskKeyEscape
         [] OTHER -> MaskContinue /\ UNCHANGED <<buffer, mask_map, tty>>
    /\ UNCHANGED <<cfgvars, rkvars, cursor_pos, num_read, TIMED_OUT>>

\* line 297: read_key fails (end of input or an I/O error), the loop is left
MaskReadError ==
    /\ pc = "read"
    /\ MaskBreak("eof")
    /\ UNCHANGED <<cfgvars, rkvars, cursor_pos, num_read, TIMED_OUT, key, fed>>

\* alarm_handler; a read it interrupts returns EINTR and the loop continues,
\* a read that has not entered the system call yet is not interrupted
Alarm ==
    /\ alarm_armed
    /\ ~TIMED_OUT
    /\ pc # "done"
    /\ TIMED_OUT' = TRUE
    /\ pc' \in (IF pc = "read" THEN {"top", "read"} ELSE {pc})
    /\ UNCHANGED <<cfgvars, rkvars, buffer, mask_map, cursor_pos, num_read, EXIT_STAT,
                   key, how, termios, retval, out, tty, fed>>

MaskKeyAny == \E k \in MaskKeys : MaskKey(k) /\ UNCHANGED fed

Init == MaskStart(Compiled(GeneratedMaskStrings \cup NamedMaskStrings))

Next ==
    \/ MaskComplete
    \/ MaskTimeout
    \/ MaskRead
    \/ MaskKeyAny
    \/ MaskReadError
    \/ Alarm

Spec == Init /\ [][Next]_vars

----------------------------------------------------------------------------
(* Scenario runs of mask mode: the keys delivered are recorded in fed.     *)

Str_nnn_nnnn == <<110, 110, 110, 45, 110, 110, 110, 110>>   \* "nnn-nnnn"
Str_nnn_n == <<110, 110, 110, 45, 110>>                     \* "nnn-n"
Str_Uplus == <<85, 43>>                                     \* "U+"
Str_opt_x == <<91, 48, 45, 57, 93, 63, 120>>                \* "[0-9]?x"
Str_nstar_U == <<110, 42, 45, 85>>                          \* "n*-U"

Chars(bytes) == [i \in 1..Len(bytes) |-> Char(bytes[i])]

Script_5551234 == Chars(<<53, 53, 53, 49, 50, 51, 52>>)
Script_555_BS == Chars(<<53, 53, 53>>) \o <<Key("Backspace")>>
Script_ABC_Enter == Chars(<<65, 66, 67>>) \o <<Key("Enter")>>

\* a mask string, the bytes typed at it, and a script that may run longer
\* than MaxFed keys
Scenarios ==
    { [str |-> Str_nnn_nnnn, bytes |-> {53, 49, 50, 51, 52}, script |-> Script_5551234],
      [str |-> Str_nnn_n, bytes |-> {53, 49}, script |-> Script_555_BS],
      [str |-> Str_Uplus, bytes |-> {65, 66, 67}, script |-> Script_ABC_Enter],
      [str |-> Str_opt_x, bytes |-> {120, 97, 53}, script |-> <<>>],
      [str |-> Str_nstar_U, bytes |-> {53, 65}, script |-> <<>>] }

ScenariosOf(m) == {sc \in Scenarios : parse_mask(sc.str).elements = m}

FeedKeys(m) ==
    UNION {{Char(b) : b \in sc.bytes} : sc \in ScenariosOf(m)}
        \cup {Key("Backspace"), Key("Enter")}

IsPrefix(p, q) == Len(p) <= Len(q) /\ SubSeq(q, 1, Len(p)) = p

\* every history of up to MaxFed keys is followed, a longer one along a script
FedAllowed(m, f) ==
    Len(f) <= MaxFed \/ \E sc \in ScenariosOf(m) : IsPrefix(f, sc.script)

FeedOptSets == {S \in SUBSET {"r", "s", "t"} : Cardinality(S) <= 1}

FeedInit ==
    /\ MaskStart(Compiled({sc.str : sc \in Scenarios}))
    /\ \E S \in FeedOptSets : flags = FlagsOf(S) /\ alarm_armed = ("t" \in S)
    /\ valid_pattern = <<>> /\ exclude_pattern = <<>> /\ default_string = <<>>
    /\ ~output_to_stderr

MaskKeyFed ==
    \E k \in FeedKeys(mask) :
        /\ FedAllowed(mask, Append(fed, k))
        /\ MaskKey(k)
        /\ fed' = Append(fed, k)

FeedNext ==
    \/ MaskComplete
    \/ MaskTimeout
    \/ MaskRead
    \/ MaskKeyFed
    \/ MaskReadError
    \/ Alarm

SpecFeed == FeedInit /\ [][FeedNext]_vars

----------------------------------------------------------------------------
(* The main reading loop of main; the line-editing branch works on         *)
(* e = [buffer, cursor_pos, num_read, tty].                                *)

\* Vec::insert / Vec::remove at a 0-based position
InsertAt(buf, pos, b) == SubSeq(buf, 1, pos) \o <<b>> \o SubSeq(buf, pos + 1, Len(buf))
RemoveAt(buf, pos) == SubSeq(buf, 1, pos) \o SubSeq(buf, pos + 2, Len(buf))
\* Vec::drain(from..to)
Drain(buf, from, to) == SubSeq(buf, 1, from) \o SubSeq(buf, to + 1, Len(buf))

redraw_input(t, buf, cur, prev_cursor_pos) ==
    LET t1 == IF prev_cursor_pos > 0 THEN cursor_left_n(t, prev_cursor_pos) ELSE t
        t2 == tty_write(CLEAR_TO_EOL(t1), buf)
        tail == Len(buf) - cur
    IN IF tail > 0 THEN cursor_left_n(t2, tail) ELSE t2

trailing_newline_if(t) == IF flags.trailing_newline THEN tty_put(t, 10) ELSE t

Redrawn(e, prev) ==
    IF flags.silent THEN e
    ELSE [e EXCEPT !.tty = redraw_input(e.tty, e.buffer, e.cursor_pos, prev)]

\* mutant: the byte goes to the end of the buffer
EditInsert_append(e, b) ==
    Redrawn([e EXCEPT !.buffer = Append(e.buffer, as_u8(b)),
                      !.cursor_pos = e.cursor_pos + 1,
                      !.num_read = e.num_read + 1],
            e.cursor_pos)

\* lines 612-617 and 749-754: the byte goes in at the cursor
EditInsert(e, b) ==
    Redrawn([e EXCEPT !.buffer = InsertAt(e.buffer, e.cursor_pos, as_u8(b)),
                      !.cursor_pos = e.cursor_pos + 1,
                      !.num_read = e.num_read + 1],
            e.cursor_pos)

\* lines 587-618: filters, then case mapping, then the insertion
EditChar(e, b) ==
    IF passes_filters(b) THEN EditInsert(e, case_map(b)) ELSE e

\* mutant: the byte before the cursor goes, the cursor stays
EditBackspace_stay(e) ==
    IF e.cursor_pos > 0
    THEN Redrawn([e EXCEPT !.buffer = RemoveAt(e.buffer, e.cursor_pos - 1),
                           !.num_read = e.num_read - 1],
                 e.cursor_pos)
    ELSE e

\* lines 619-628
EditBackspace(e) ==
    IF e.cursor_pos > 0
    THEN Redrawn([e EXCEPT !.buffer = RemoveAt(e.buffer, e.cursor_pos - 1),
                           !.cursor_pos = e.cursor_pos - 1,
                           !.num_read = e.num_read - 1],
                 e.cursor_pos)
    ELSE e

\* mutant: the byte at the cursor goes, the count is not taken down
EditDelete_uncounted(e) ==
    IF e.cursor_pos < Len(e.buffer)
    THEN Redrawn([e EXCEPT !.buffer = RemoveAt(e.buffer, e.cursor_pos)],
                 e.cursor_pos)
    ELSE e

\* lines 629-637
EditDelete(e) ==
    IF e.cursor_pos < Len(e.buffer)
    THEN Redrawn([e EXCEPT !.buffer = RemoveAt(e.buffer, e.cursor_pos),
                           !.num_read = e.num_read - 1],
                 e.cursor_pos)
    ELSE e

\* lines 638-646
EditLeft(e) ==
    IF e.cursor_pos > 0
    THEN [e EXCEPT !.cursor_pos = e.cursor_pos - 1,
                   !.tty = IF flags.silent THEN e.tty ELSE CURSOR_LEFT(e.tty)]
    ELSE e

\* mutant: Right also moves at the end of the buffer
EditRight_past(e) ==
    IF e.cursor_pos <= Len(e.buffer)
    THEN [e EXCEPT !.cursor_pos = e.cursor_pos + 1,
                   !.tty = IF flags.silent THEN e.tty ELSE CURSOR_RIGHT(e.tty)]
    ELSE e

\* lines 647-655
EditRight(e) ==
    IF e.cursor_pos < Len(e.buffer)
    THEN [e EXCEPT !.cursor_pos = e.cursor_pos + 1,
                   !.tty = IF flags.silent THEN e.tty ELSE CURSOR_RIGHT(e.tty)]
    ELSE e

\* mutant: Home moves the cursor one place to the left
EditHome_one(e) ==
    IF e.cursor_pos > 0
    THEN [e EXCEPT !.cursor_pos = e.cursor_pos - 1,
                   !.tty = IF flags.silent THEN e.tty
                           ELSE cursor_left_n(e.tty, e.cursor_pos)]
    ELSE e

\* lines 656-665
EditHome(e) ==
    IF e.cursor_pos > 0
    THEN [e EXCEPT !.cursor_pos = 0,
                   !.tty = IF flags.silent THEN e.tty
                           ELSE cursor_left_n(e.tty, e.cursor_pos)]
    ELSE e

\* lines 666-676
EditEnd(e) ==
    IF e.cursor_pos < Len(e.buffer)
    THEN [e EXCEPT !.cursor_pos = Len(e.buffer),
                   !.tty = IF flags.silent THEN e.tty
                           ELSE cursor_right_n(e.tty, Len(e.buffer) - e.cursor_pos)]
    ELSE e

\* lines 677-687
EditKillToEnd(e) ==
    LET removed == Len(e.buffer) - e.cursor_pos
    IN IF removed > 0
       THEN [e EXCEPT !.buffer = SubSeq(e.buffer, 1, e.cursor_pos),
                      !.num_read = e.num_read - removed,
                      !.tty = IF flags.silent THEN e.tty ELSE CLEAR_TO_EOL(e.tty)]
       ELSE e

\* mutant: the bytes before the cursor go, the cursor stays
EditKillToStart_stay(e) ==
    IF e.cursor_pos > 0
    THEN Redrawn([e EXCEPT !.buffer = Drain(e.buffer, 0, e.cursor_pos),
                           !.num_read = e.num_read - e.cursor_pos],
                 e.cursor_pos)
    ELSE e

\* lines 688-698
EditKillToStart(e) ==
    IF e.cursor_pos > 0
    THEN Redrawn([e EXCEPT !.buffer = Drain(e.buffer, 0, e.cursor_pos),
                           !.num_read = e.num_read - e.cursor_pos,
                           !.cursor_pos = 0],
                 e.cursor_pos)
    ELSE e

\* mutant: the spaces before the cursor are not skipped
SkipSpacesBack_none(buf, pos) == pos

\* lines 704-706: back over the spaces before pos
RECURSIVE SkipSpacesBack(_, _)
SkipSpacesBack(buf, pos) ==
    IF pos > 0 /\ buf[pos] = 32 THEN SkipSpacesBack(buf, pos - 1) ELSE pos

\* lines 708-710: back over the non-spaces before pos
RECURSIVE SkipWordBack(_, _)
SkipWordBack(buf, pos) ==
    IF pos > 0 /\ buf[pos] # 32 THEN SkipWordBack(buf, pos - 1) ELSE pos

\* lines 699-719
EditKillWordBack(e) ==
    IF e.cursor_pos > 0
    THEN LET new_pos == SkipWordBack(e.buffer, SkipSpacesBack(e.buffer, e.cursor_pos))
         IN Redrawn([e EXCEPT !.buffer = Drain(e.buffer, new_pos, e.cursor_pos),
                              !.cursor_pos = new_pos,
                              !.num_read = e.num_read - (e.cursor_pos - new_pos)],
                    e.cursor_pos)
    ELSE e

\* lines 733-754: Enter without -r is a newline character, filtered but not
\* case-mapped
EditNewline(e) ==
    IF passes_filters(10) THEN EditInsert(e, 10) ELSE e

CurE == [buffer |-> buffer, cursor_pos |-> cursor_pos, num_read |-> num_read, tty |-> tty]

SetE(e) ==
    /\ buffer' = e.buffer
    /\ cursor_pos' = e.cursor_pos
    /\ num_read' = e.num_read
    /\ tty' = e.tty

MainKeys ==
    {Char(b) : b \in {97, 120, 32}}
        \cup {Key(t) : t \in {"Backspace", "Delete", "Left", "Right", "Home", "End",
                               "KillToEnd", "KillToStart", "KillWordBack", "Enter",
                               "Up", "Escape"}}

\* lines 556-560: the state at the first turn of the loop
MainStart(editing) ==
    /\ KeysIdle
    /\ \E S \in OptSets(MainOpts) : ConfigInit(S)
    /\ how_many \in 1..MaxEdit
    /\ \E erase \in {"unset", "on", "off"} :
           erase_active = (IF erase = "unset" THEN how_many > 1 ELSE erase = "on")
    /\ erase_active \in editing
    /\ mask_string = <<>>
    /\ mask = <<>>
    /\ mask_map = <<>>
    /\ buffer = <<>>
    /\ cursor_pos = 0
    /\ num_read = 0
    /\ tty = TtyInit
    /\ pc = "top"

\* the default is returned and the process exits (lines 565-570, 722-728)
MainDefault ==
    LET io == handle_default([out |-> out, tty |-> tty])
    IN /\ out' = io.out
       /\ tty' = trailing_newline_if(io.tty)
       /\ EXIT_STAT' = Len(default_string)
       /\ retval' = <<Len(default_string)>>
       /\ how' = "default"
       /\ termios' = "orig"
       /\ pc' = "done"
       /\ UNCHANGED <<buffer, cursor_pos, num_read>>

\* mutant: the buffer is not written when the loop is left
MainExit_unwritten(why) ==
    /\ out' = out
    /\ tty' = trailing_newline_if(tty)
    /\ EXIT_STAT' = num_read
    /\ retval' = <<num_read>>
    /\ how' = why
    /\ termios' = "orig"
    /\ pc' = "done"
    /\ UNCHANGED <<buffer, cursor_pos, num_read>>

\* lines 827-836: after the loop
MainExit(why) ==
    LET io == IF erase_active /\ ~flags.silent
              THEN output_str([out |-> out, tty |-> tty], from_utf8_lossy(buffer),
                              output_to_stderr, flags.both)
              ELSE [out |-> out, tty |-> tty]
    IN /\ out' = io.out
       /\ tty' = trailing_newline_if(io.tty)
       /\ EXIT_STAT' = num_read
       /\ retval' = <<num_read>>
       /\ how' = why
       /\ termios' = "orig"
       /\ pc' = "done"
       /\ UNCHANGED <<buffer, cursor_pos, num_read>>

MainContinue ==
    /\ pc' = "top"
    /\ UNCHANGED <<how, termios, retval, out, EXIT_STAT>>

\* line 562: the count is reached, the loop is left
MainCountReached ==
    /\ pc = "top"
    /\ ~(num_read < how_many)
    /\ MainExit("complete")
    /\ UNCHANGED <<cfgvars, rkvars, mask_map, TIMED_OUT, key, fed>>

\* lines 563-576
MainTimeout ==
    /\ pc = "top"
    /\ num_read < how_many
    /\ TIMED_OUT
    /\ IF flags.dflt /\ num_read = 0 /\ default_string # <<>>
       THEN MainDefault
       ELSE /\ tty' = trailing_newline_if(tty)
            /\ EXIT_STAT' = -2
            /\ retval' = <<-2>>
            /\ how' = "timeout"
            /\ termios' = "orig"
            /\ pc' = "done"
            /\ UNCHANGED <<buffer, cursor_pos, num_read, out>>
    /\ UNCHANGED <<cfgvars, rkvars, mask_map, TIMED_OUT, key, fed>>

\* line 578: read_key is called
MainRead ==
    /\ pc = "top"
    /\ num_read < how_many
    /\ ~TIMED_OUT
    /\ pc' = "read"
    /\ UNCHANGED <<cfgvars, rkvars, buffer, mask_map, cursor_pos, num_read, TIMED_OUT,
                   EXIT_STAT, key, how, termios, retval, out, tty, fed>>

\* lines 720-755 (editing) and 809-821 (no editing)
MainKeyEnter ==
    IF flags.dflt /\ num_read = 0 /\ default_string # <<>>
    THEN MainDefault
    ELSE IF flags.ret_key
         THEN MainExit("enter")
         ELSE IF erase_active
              THEN SetE(EditNewline(CurE)) /\ MainContinue
              ELSE MainContinue /\ UNCHANGED <<buffer, cursor_pos, num_read, tty>>

\* lines 585-758: the keys of the line-editing branch
EditKey(k) ==
    CASE k.t = "Char" -> SetE(EditChar(CurE, k.b)) /\ MainContinue
      [] k.t = "Backspace" -> SetE(EditBackspace(CurE)) /\ MainContinue
      [] k.t = "Delete" -> SetE(EditDelete(CurE)) /\ MainContinue
      [] k.t = "Left" -> SetE(EditLeft(CurE)) /\ MainContinue
      [] k.t = "Right" -> SetE(EditRight(CurE)) /\ MainContinue
      [] k.t = "Home" -> SetE(EditHome(CurE)) /\ MainContinue
      [] k.t = "End" -> SetE(EditEnd(CurE)) /\ MainContinue
      [] k.t = "KillToEnd" -> SetE(EditKillToEnd(CurE)) /\ MainContinue
      [] k.t = "KillToStart" -> SetE(EditKillToStart(CurE)) /\ MainContinue
      [] k.t = "KillWordBack" -> SetE(EditKillWordBack(CurE)) /\ MainContinue
      [] k.t = "Enter" -> MainKeyEnter
      [] OTHER -> MainContinue /\ UNCHANGED <<buffer, cursor_pos, num_read, tty>>

\* lines 762-803: a character of the branch without editing
RawKeyChar(k) ==
    IF k.b = 10 /\ flags.dflt /\ num_read = 0 /\ default_string # <<>>
    THEN MainDefault
    ELSE IF k.b = 10 /\ flags.ret_key
         THEN MainExit("enter")
         ELSE IF passes_filters(k.b)
              THEN LET ch == case_map(k.b)
                       io == IF ~flags.silent
                             THEN output_str([out |-> out, tty |-> tty], <<ch>>,
                                             output_to_stderr, flags.both)
                             ELSE [out |-> out, tty |-> tty]
                   IN /\ buffer' = Append(buffer, as_u8(ch))
                      /\ num_read' = num_read + 1
                      /\ out' = io.out
                      /\ tty' = io.tty
                      /\ pc' = "top"
                      /\ UNCHANGED <<cursor_pos, how, termios, retval, EXIT_STAT>>
              ELSE MainContinue /\ UNCHANGED <<buffer, cursor_pos, num_read, tty>>

\* lines 759-824: the keys of the branch without editing
RawKey(k) ==
    CASE k.t = "Char" -> RawKeyChar(k)
      [] k.t = "Backspace" ->
            /\ buffer' = Append(buffer, 127)
            /\ num_read' = num_read + 1
            /\ MainContinue
            /\ UNCHANGED <<cursor_pos, tty>>
      [] k.t = "Enter" -> MainKeyEnter
      [] OTHER -> MainContinue /\ UNCHANGED <<buffer, cursor_pos, num_read, tty>>

\* lines 578-825: read_key returns the key k and the match handles it
MainKey(k) ==
    /\ pc = "read"
    /\ key' = k
    /\ IF erase_active THEN EditKey(k) ELSE RawKey(k)
    /\ UNCHANGED <<cfgvars, rkvars, mask_map, TIMED_OUT>>

\* lines 581-582: read_key fails (end of input or an I/O error)
MainReadError ==
    /\ pc = "read"
    /\ MainExit("eof")
    /\ UNCHANGED <<cfgvars, rkvars, mask_map, TIMED_OUT, key, fed>>

MainKeyAny == \E k \in MainKeys : MainKey(k) /\ UNCHANGED fed

EditInit == MainStart({TRUE})

EditNext ==
    \/ MainCountReached
    \/ MainTimeout
    \/ MainRead
    \/ MainKeyAny
    \/ MainReadError
    \/ Alarm

SpecEdit == EditInit /\ [][EditNext]_vars

\* the main reading loop with line editing on or off
MainInit == MainStart({TRUE, FALSE})

SpecMain == MainInit /\ [][EditNext]_vars

----------------------------------------------------------------------------
(* The key decoder on a byte stream: calls of read_key, one after another, *)
(* while bytes arrive on the descriptor.                                   *)

loopvars == <<cfgvars, buffer, mask_map, cursor_pos, num_read, EXIT_STAT, pc, key,
              how, termios, retval, out, tty, fed>>

StreamBytes == {27, 91, 65, 49, 126}            \* ESC [ A 1 ~
GeneratedStreams == UNION {[1..n -> StreamBytes] : n \in 1..MaxStream}
SingleByteStreams == {<<b>> : b \in 0..255}
NamedStreams ==
    { <<27, 91, 66>>, <<27, 91, 67>>, <<27, 91, 68>>, <<27, 91, 72>>, <<27, 91, 70>>,
      <<27, 91, 51, 126>>,                      \* ESC [ 3 ~
      <<27, 91, 52, 126>>,                      \* ESC [ 4 ~
      <<27, 91, 49, 126, 97>>,                  \* ESC [ 1 ~ a
      <<27, 91, 53, 126, 97>>,                  \* ESC [ 5 ~ a
      <<27, 91, 49, 53, 126>>,                  \* ESC [ 1 5 ~
      <<27, 91, 49, 59, 53, 67>>,               \* ESC [ 1 ; 5 C
      <<27, 79, 80>>,                           \* ESC O P
      <<27, 91, 65, 97>> }                      \* ESC [ A a
Streams == GeneratedStreams \cup SingleByteStreams \cup NamedStreams

KeysInit ==
    /\ \E S \in {{}, {"t"}} : ConfigInit(S)
    /\ mask_string = <<>>
    /\ mask = <<>>
    /\ how_many = 1
    /\ erase_active = FALSE
    /\ buffer = <<>>
    /\ mask_map = <<>>
    /\ cursor_pos = 0
    /\ num_read = 0
    /\ tty = TtyInit
    /\ pc = "read"
    /\ \E s \in Streams : stdin = [inq |-> <<>>, later |-> s, closed |-> FALSE]
    /\ rk = RkIdle
    /\ keys = <<>>

\* the decision d of a step: the call returns, or stands at its next read
KeyReturn(f, d) ==
    IF d.ret
    THEN /\ rk' = RkIdle
         /\ keys' = Append(keys, [key |-> d.key, taken |-> f.taken, had |-> f.had,
                                  nobyte |-> f.nobyte])
    ELSE /\ rk' = [f EXCEPT !.at = d.at, !.b3 = d.b3]
         /\ keys' = keys

Decide(f, r) == IF f.at = "b" THEN read_key(r) ELSE parse_escape_seq(f, r)

\* the loop calls read_key: never with the timed-out flag set, never again
\* after end of input
ReadKeyCall ==
    /\ rk.at = "idle"
    /\ ~TIMED_OUT
    /\ keys # <<>> => Last(keys).key.t \notin {"UnexpectedEof", "Other"}
    /\ rk' = [RkIdle EXCEPT !.at = "b"]
    /\ UNCHANGED <<stdin, keys, TIMED_OUT, loopvars>>

\* read_byte returns the byte at the head of the queue
ReadByteOk ==
    /\ rk.at \in ReadPositions
    /\ stdin.inq # <<>>
    /\ LET b == Head(stdin.inq)
           f == [rk EXCEPT !.taken = Append(rk.taken, b),
                           !.had = IF rk.at = "b" THEN stdin.inq ELSE rk.had]
       IN KeyReturn(f, Decide(f, ByteOk(b)))
    /\ stdin' = [stdin EXCEPT !.inq = Tail(stdin.inq)]
    /\ UNCHANGED <<TIMED_OUT, loopvars>>

\* read returns 0: nothing queued and the descriptor is at its end
ReadByteEof ==
    /\ rk.at \in ReadPositions
    /\ stdin.inq = <<>>
    /\ stdin.closed
    /\ KeyReturn(rk, Decide(rk, ByteErr("UnexpectedEof")))
    /\ UNCHANGED <<stdin, TIMED_OUT, loopvars>>

\* read returns -1 with an errno other than EINTR (the terminal is gone)
ReadByteFail ==
    /\ rk.at \in ReadPositions
    /\ stdin.inq = <<>>
    /\ KeyReturn(rk, Decide(rk, ByteErr("Other")))
    /\ UNCHANGED <<stdin, TIMED_OUT, loopvars>>

\* poll reports the descriptor readable (a byte, or its end)
PollReady ==
    /\ rk.at = "poll"
    /\ stdin.inq # <<>> \/ stdin.closed
    /\ KeyReturn(rk, after_byte_available(TRUE))
    /\ UNCHANGED <<stdin, TIMED_OUT, loopvars>>

\* poll reports no byte: the 50 ms have passed, or the descriptor hung up
PollNoByte ==
    /\ rk.at = "poll"
    /\ stdin.inq = <<>>
    /\ KeyReturn([rk EXCEPT !.nobyte = TRUE], after_byte_available(FALSE))
    /\ UNCHANGED <<stdin, TIMED_OUT, loopvars>>

\* alarm_handler runs.  A read or poll it finds blocked fails with EINTR; if
\* the process is not inside the system call yet (it stands between the
\* loop's flag check, or the previous call, and the read), only the flag is
\* set and the call that follows blocks as usual
KeysAlarm ==
    /\ alarm_armed
    /\ ~TIMED_OUT
    /\ pc # "done"
    /\ TIMED_OUT' = TRUE
    /\ \/ /\ stdin.inq = <<>> /\ ~stdin.closed /\ rk.at \in ReadPositions
          /\ KeyReturn(rk, Decide(rk, ByteErr("Interrupted")))
       \/ /\ stdin.inq = <<>> /\ rk.at = "poll"
          /\ KeyReturn([rk EXCEPT !.nobyte = TRUE], after_byte_available(FALSE))
       \/ UNCHANGED <<rk, keys>>
    /\ UNCHANGED <<stdin, loopvars>>

\* the next byte reaches the descriptor's queue
Arrive ==
    /\ stdin.later # <<>>
    /\ stdin' = [stdin EXCEPT !.inq = Append(stdin.inq, Head(stdin.later)),
                              !.later = Tail(stdin.later)]
    /\ UNCHANGED <<rk, keys, TIMED_OUT, loopvars>>

\* the descriptor reaches its end after the last byte
Close ==
    /\ stdin.later = <<>>
    /\ ~stdin.closed
    /\ stdin' = [stdin EXCEPT !.closed = TRUE]
    /\ UNCHANGED <<rk, keys, TIMED_OUT, loopvars>>

\* the steps the process takes whenever it can; a failure of the descriptor is
\* not one of them
DecoderStep == ReadKeyCall \/ ReadByteOk \/ ReadByteEof \/ PollReady \/ PollNoByte

KeysNext ==
    \/ ReadKeyCall
    \/ ReadByteOk
    \/ ReadByteEof
    \/ ReadByteFail
    \/ PollReady
    \/ PollNoByte
    \/ KeysAlarm
    \/ Arrive
    \/ Close

SpecKeys == KeysInit /\ [][KeysNext]_vars

\* the process is scheduled: a step of the decoder that can be taken is
\* taken; nothing obliges the descriptor to deliver a byte, to reach its end
\* or the alarm to be armed
SpecKeysFair == SpecKeys /\ WF_vars(DecoderStep)

----------------------------------------------------------------------------
(* The loops on a byte stream: run_mask_mode and the line-editing loop of  *)
(* main calling read_key, the calls decoding the bytes that arrive.        *)
(* pc = "read" with rk idle and as many keys delivered as returned: the    *)
(* loop is about to call read_key; with one more returned than delivered:  *)
(* read_key has returned and the match has not run yet.                    *)

InMaskMode == mask # <<>>

RunOptSets == { {}, {"t"}, {"t", "d"}, {"r"}, {"s"} }

RunBytes == {27, 91, 53, 127}                               \* ESC [ 5 DEL
NamedRunStreams ==
    { <<53, 10>>,                                           \* 5 Enter
      <<97>>,                                               \* a
      <<27, 91, 65>>,                                       \* ESC [ A
      <<27, 91, 68, 53>>,                                   \* ESC [ D 5
      <<53, 27, 91, 51, 126>>,                              \* 5 ESC [ 3 ~
      <<53, 97, 2, 127>>,                                   \* 5 a Ctrl-B DEL
      <<53, 97, 2, 2, 4>>,                                  \* 5 a Ctrl-B Ctrl-B Ctrl-D
      <<53, 97, 2, 4, 4>>,                                  \* 5 a Ctrl-B Ctrl-D Ctrl-D
      <<127, 53, 97, 127>>,                                 \* DEL 5 a DEL
      <<53, 97, 1, 5>>,                                     \* 5 a Home End
      <<53, 2, 2, 6, 6>>,                                   \* 5 Left Left Right Right
      <<53, 97, 2, 11>>,                                    \* 5 a Left Ctrl-K
      <<53, 97, 2, 21>>,                                    \* 5 a Left Ctrl-U
      <<53, 97, 11>>,                                       \* 5 a Ctrl-K
      <<53, 97, 21>>,                                       \* 5 a Ctrl-U
      <<53, 32, 23>>,                                       \* 5 SP Ctrl-W
      <<32, 53, 23>>,                                       \* SP 5 Ctrl-W
      <<32, 32, 23>>,                                       \* SP SP Ctrl-W
      <<53, 97, 2, 23>>,                                    \* 5 a Left Ctrl-W
      <<53, 32, 2, 23>> }                                   \* 5 SP Left Ctrl-W
RunStreams == UNION {[1..n -> RunBytes] : n \in 0..MaxStream} \cup NamedRunStreams

RunInit ==
    /\ \E S \in RunOptSets : ConfigInit(S)
    /\ \/ /\ mask \in Compiled(RunMaskStrings)
          /\ mask_string \in StringsOf(mask)
          /\ how_many = 1
          /\ erase_active = FALSE
          /\ LET st == mask_auto_insert_literals(mask,
                          [buffer |-> <<>>, mask_map |-> <<>>, tty |-> TtyInit], 0,
                          flags.silent)
             IN buffer = st.buffer /\ mask_map = st.mask_map /\ tty = st.tty
       \/ /\ mask_string = <<>>
          /\ mask = <<>>
          /\ how_many \in 1..(MaxEdit + 1)
          /\ erase_active = TRUE
          /\ buffer = <<>>
          /\ mask_map = <<>>
          /\ tty = TtyInit
    /\ cursor_pos = 0
    /\ num_read = 0
    /\ pc = "top"
    /\ \E s \in RunStreams : stdin = [inq |-> <<>>, later |-> s, closed |-> FALSE]
    /\ rk = RkIdle
    /\ keys = <<>>

\* the head of an iteration of run_mask_mode's loop (mask.rs lines 251-294)
RunMaskHead ==
    /\ InMaskMode
    /\ MaskComplete \/ MaskTimeout \/ MaskRead

\* the head of an iteration of main's loop (main.rs lines 562-578)
RunMainHead ==
    /\ ~InMaskMode
    /\ MainCountReached \/ MainTimeout \/ MainRead

\* read_key is entered
RunCall ==
    /\ pc = "read"
    /\ rk.at = "idle"
    /\ Len(keys) = Len(fed)
    /\ rk' = [RkIdle EXCEPT !.at = "b"]
    /\ UNCHANGED <<stdin, keys, TIMED_OUT, loopvars>>

\* the match on what read_key returned (mask.rs lines 294-298, main.rs lines
\* 578-583), and for a key the arm that handles it
RunDeliver ==
    /\ pc = "read"
    /\ rk.at = "idle"
    /\ Len(keys) > Len(fed)
    /\ LET k == Last(keys).key
       IN /\ fed' = Append(fed, k)
          /\ CASE k.t = "Interrupted" ->
                    /\ pc' = "top"
                    /\ UNCHANGED <<cfgvars, rkvars, buffer, mask_map, cursor_pos, num_read,
                                   TIMED_OUT, EXIT_STAT, key, how, termios, retval, out, tty>>
               [] k.t \in {"UnexpectedEof", "Other"} ->
                    IF InMaskMode
                    THEN /\ MaskBreak("eof")
                         /\ UNCHANGED <<cfgvars, rkvars, cursor_pos, num_read, TIMED_OUT, key>>
                    ELSE /\ MainExit("eof")
                         /\ UNCHANGED <<cfgvars, rkvars, mask_map, TIMED_OUT, key>>
               [] OTHER -> IF InMaskMode THEN MaskKey(k) ELSE MainKey(k)

\* the steps the process takes whenever it can
RunStep ==
    \/ RunMaskHead
    \/ RunMainHead
    \/ RunCall
    \/ ReadByteOk
    \/ ReadByteEof
    \/ PollReady
    \/ PollNoByte
    \/ RunDeliver

RunNext ==
    \/ RunMaskHead
    \/ RunMainHead
    \/ RunCall
    \/ ReadByteOk
    \/ ReadByteEof
    \/ ReadByteFail
    \/ PollReady
    \/ PollNoByte
    \/ RunDeliver
    \/ KeysAlarm
    \/ Arrive
    \/ Close

SpecRun == RunInit /\ [][RunNext]_vars

\* the process is scheduled; nothing obliges the descriptor to deliver a byte,
\* to fail or to reach its end, or the alarm to fire
SpecRunFair == SpecRun /\ WF_vars(RunStep)

----------------------------------------------------------------------------
(* Compiling the mask: main hands the -m argument to parse_mask and starts *)
(* mask mode on the result.                                                *)

ParseAlphabet == {110, 85, 45, 63, 42, 43, 92}              \* n U - ? * + \

NamedParseStrings ==
    { <<91, 97, 93, 42>>,                                   \* "[a]*"
      <<45, 91, 97, 93, 63>>,                               \* "-[a]?"
      <<91, 94, 97, 93, 43, 110>>,                          \* "[^a]+n"
      <<91, 42, 93>>,                                       \* "[*]"
      <<91, 97, 63>>,                                       \* "[a?"
      <<92, 42, 42>>,                                       \* "\**"
      <<92, 110, 63>>,                                      \* "\n?"
      <<110, 63, 42>>,                                      \* "n?*"
      <<110, 42, 45, 85, 43>>,                              \* "n*-U+"
      <<40, 110, 110, 41, 63>> }                            \* "(nn)?"

ParseStrings ==
    UNION {[1..n -> ParseAlphabet] : n \in 1..MaxMaskLen} \cup NamedParseStrings

ParseInit ==
    /\ KeysIdle
    /\ ConfigInit({})
    /\ mask_string \in ParseStrings
    /\ mask = <<>>
    /\ how_many = 1
    /\ erase_active = FALSE
    /\ buffer = <<>>
    /\ mask_map = <<>>
    /\ cursor_pos = 0
    /\ num_read = 0
    /\ tty = TtyInit
    /\ pc = "parse"

\* main.rs lines 532-544: parse_mask; process::exit(255) inside it or for an
\* empty mask; otherwise run_mask_mode up to its loop (mask.rs lines 244-249)
ParseMask ==
    /\ pc = "parse"
    /\ LET r == parse_mask(mask_string)
       IN IF ~r.ok \/ r.elements = <<>>
          THEN /\ how' = (IF r.ok THEN "empty" ELSE "fatal")
               /\ termios' = (IF r.ok THEN "orig" ELSE "raw")
               /\ retval' = <<255>>
               /\ pc' = "done"
               /\ UNCHANGED <<mask, buffer, mask_map, tty>>
          ELSE /\ mask' = r.elements
               /\ SetSt(mask_auto_insert_literals(r.elements, CurSt, 0, flags.silent))
               /\ pc' = "top"
               /\ UNCHANGED <<how, termios, retval>>
    /\ UNCHANGED <<mask_string, flags, valid_pattern, exclude_pattern, default_string,
                   output_to_stderr, alarm_armed, how_many, erase_active, rkvars,
                   cursor_pos, num_read, TIMED_OUT, EXIT_STAT, key, out, fed>>

ParseNext == ParseMask

SpecParse == ParseInit /\ [][ParseNext]_vars

----------------------------------------------------------------------------
(* The process from init_term to its exit: the terminal is in raw mode,    *)
(* the signal handlers are installed, then the mask is compiled and mask   *)
(* mode runs, or the main reading loop runs.                               *)

\* setup_signals installs signal_handler for these three
HandledSignals == {"SIGINT", "SIGQUIT", "SIGTSTP"}
\* SIGTERM keeps its default disposition, which ends the process
Signals == HandledSignals \cup {"SIGTERM"}

\* a signal is delivered: signal_handler restores the saved mode and calls
\* _exit(EXIT_STAT); a signal without handler ends the process as it stands
Signal(sig) ==
    /\ pc # "done"
    /\ IF sig \in HandledSignals
       THEN /\ termios' = "orig"
            /\ how' = "signal"
            /\ retval' = <<EXIT_STAT>>
       ELSE /\ termios' = termios
            /\ how' = "killed"
            /\ retval' = <<143>>
    /\ pc' = "done"
    /\ UNCHANGED <<cfgvars, rkvars, buffer, mask_map, cursor_pos, num_read, TIMED_OUT,
                   EXIT_STAT, key, out, tty, fed>>

ExitInit ==
    \/ /\ KeysIdle
       /\ \E S \in RunOptSets : ConfigInit(S)
       /\ mask_string \in ParseStrings
       /\ mask = <<>>
       /\ how_many = 1
       /\ erase_active = FALSE
       /\ buffer = <<>>
       /\ mask_map = <<>>
       /\ cursor_pos = 0
       /\ num_read = 0
       /\ tty = TtyInit
       /\ pc = "parse"
    \/ MainInit

\* run_mask_mode's loop
ExitMaskLoop ==
    /\ InMaskMode
    /\ MaskComplete \/ MaskTimeout \/ MaskRead \/ MaskKeyAny \/ MaskReadError

\* main's loop
ExitMainLoop ==
    /\ ~InMaskMode
    /\ MainCountReached \/ MainTimeout \/ MainRead \/ MainKeyAny \/ MainReadError

ExitNext ==
    \/ ParseMask
    \/ ExitMaskLoop
    \/ ExitMainLoop
    \/ Alarm
    \/ \E sig \in Signals : Signal(sig)

SpecExit == ExitInit /\ [][ExitNext]_vars

----------------------------------------------------------------------------
(* Properties                                                              *)

TypeOK ==
    /\ pc \in {"parse", "top", "read", "done"}
    /\ Len(buffer) = Len(mask_map)

\* C2: in the line-editing loop, after every key of any sequence, the cursor
\* is within the buffer: 0 <= cursor_pos <= len(buffer).
C2_CursorInBuffer == 0 <= cursor_pos /\ cursor_pos <= Len(buffer)

\* the Right key has acted and the cursor stands at the end of a buffer that
\* holds a byte
C2_Witness ==
    /\ key.t = "Right"
    /\ Len(buffer) >= 1
    /\ cursor_pos = Len(buffer)

\* C1: in mask mode, after any sequence of keys on any compiled mask,
\* mask_map and buffer have the same length and every Exactly-One or
\* ZeroOrOne element (literals included) occurs at most once in mask_map.
C1_MapParallelAndCapped ==
    /\ Len(mask_map) = Len(buffer)
    /\ \A i \in 1..Len(mask) :
           mask[i].quantifier \in {"One", "Optional"} => CountEq(mask_map, i - 1) <= 1

\* a ZeroOrOne element and a literal are both in the map after a Backspace
\* and a character
C1_Witness ==
    /\ key.t = "Char"
    /\ \E i \in 1..Len(mask) :
           mask[i].quantifier = "Optional" /\ CountEq(mask_map, i - 1) = 1
    /\ \E i \in 1..Len(mask) : IsLiteral(mask[i]) /\ CountEq(mask_map, i - 1) = 1
    /\ Len(buffer) >= 3

Mask_nnn_nnnn == parse_mask(Str_nnn_nnnn).elements
Mask_nnn_n == parse_mask(Str_nnn_n).elements
Mask_Uplus == parse_mask(Str_Uplus).elements
Mask_opt_x == parse_mask(Str_opt_x).elements

AllExactlyOne(m) == \A i \in 1..Len(m) : m[i].quantifier = "One"

\* C3: with mask "nnn-nnnn" the seven digit keys 5,5,5,1,2,3,4 yield buffer
\* "555-1234"; the '-' is in the buffer right after the third digit, put
\* there by the automaton and not by a key.
C3_PhoneNumber ==
    mask = Mask_nnn_nnnn =>
        /\ fed = Chars(<<53, 53, 53>>) =>
               buffer = <<53, 53, 53, 45>> /\ mask_map = <<0, 1, 2, 3>>
        /\ fed = Script_5551234 =>
               /\ buffer = <<53, 53, 53, 45, 49, 50, 51, 52>>
               /\ mask_map = <<0, 1, 2, 3, 4, 5, 6, 7>>

\* the seven digits were fed and the loop has ended by completion
C3_Witness ==
    /\ mask = Mask_nnn_nnnn
    /\ fed = Script_5551234
    /\ how = "complete"
    /\ out = <<53, 53, 53, 45, 49, 50, 51, 52>>

C5_UnboundedEndsByEnter ==
    /\ mask_has_unbounded(mask) => how # "complete"
    /\ (mask = Mask_Uplus /\ fed = Script_ABC_Enter) =>
           /\ how = "enter"
           /\ pc = "done"
           /\ buffer = <<65, 66, 67>>
           /\ out = <<65, 66, 67>>
           /\ retval = <<3>>

\* A, B, C and Enter were fed to "U+" and the loop has ended
C5_Witness ==
    /\ mask = Mask_Uplus
    /\ fed = Script_ABC_Enter
    /\ retval = <<3>>

\* C6 as claimed: with mask "U+", Enter on an empty buffer with no default
\* configured changes nothing and the loop goes on reading, whatever the
\* other flags are (-r included).
C6_EnterOnEmptyIsNoOp ==
    [][(/\ mask = Mask_Uplus
        /\ buffer = <<>>
        /\ default_string = <<>>
        /\ MaskKey(Key("Enter")))
       => (/\ buffer' = buffer
           /\ mask_map' = mask_map
           /\ retval' = <<>>
           /\ how' = "running"
           /\ pc' = "top")]_vars

\* C7 as claimed: Enter ends the loop with acceptance only where
\* mask_satisfied holds; in every other state Enter leaves the loop running
\* (the return of a configured default on an empty buffer is a different
\* outcome and is left aside).
C7_EnterAcceptsOnlySatisfied ==
    [][(MaskKey(Key("Enter")) /\ how' # "default")
       => (/\ how' = "enter" => mask_satisfied(mask, mask_map)
           /\ ~mask_satisfied(mask, mask_map) => (pc' = "top" /\ how' = "running"))]_vars

\* C8 as claimed: with mask "[0-9]?x" and an empty buffer the key 'x' is
\* accepted and recorded at the second element.
C8_KeyXAccepted ==
    (mask = Mask_opt_x /\ fed = Chars(<<120>>)) =>
        (buffer = <<120>> /\ mask_map = <<1>>)

\* C8 as amended: the second element of "[0-9]?x" is the Hex class.  With an
\* empty buffer the key 'a' is accepted: the automaton advances past the
\* ZeroOrOne element, which keeps zero characters, and records 'a' at the
\* second element; the key 'x' is no hex digit and is rejected.
C8_HexDigitSkipsOptional ==
    mask = Mask_opt_x =>
        /\ fed = Chars(<<97>>) => (buffer = <<97>> /\ mask_map = <<1>>)
        /\ fed = Chars(<<120>>) => (buffer = <<>> /\ mask_map = <<>>)

\* 'a' was fed to "[0-9]?x" and sits at the second element, the first empty
C8_Witness ==
    /\ mask = Mask_opt_x
    /\ fed = Chars(<<97>>)
    /\ mask_map = <<1>>
    /\ CountEq(mask_map, 0) = 0

\* C9 as claimed: with mask "nnn-n" and buffer "555-", one Backspace leaves
\* buffer "55", the map at the digit elements with two characters consumed.
C9_BackspaceThroughLiteral ==
    (mask = Mask_nnn_n /\ fed = Script_555_BS) =>
        (buffer = <<53, 53>> /\ mask_map = <<0, 1>>)

\* C10 as claimed: Backspace right after an accepted character restores
\* buffer and mask_map to what they were before that character.
C10_BackspaceUndoesKey ==
    [][\A k \in MaskKeys :
          (/\ k.t = "Char"
           /\ MaskKey(k)
           /\ buffer' # buffer
           /\ ~mask_complete(mask, buffer', mask_map'))
          => LET st == MaskBackspace(mask,
                          [buffer |-> buffer', mask_map |-> mask_map', tty |-> tty'],
                          flags.silent)
             IN st.buffer = buffer /\ st.mask_map = mask_map]_vars

Pat_aeiou == <<91, 97, 101, 105, 111, 117, 93>>             \* -c "[aeiou]"

\* C11 as claimed (mask mode): with the include filter "[aeiou]" active, a
\* key whose character does not match the filter changes neither buffer,
\* mask_map, cursor nor the count of characters read.
C11_FilteredKeyDropped ==
    [][\A k \in MaskKeys :
          (/\ k.t = "Char"
           /\ flags.check
           /\ valid_pattern = Pat_aeiou
           /\ ~is_match(valid_pattern, k.b)
           /\ MaskKey(k))
          => UNCHANGED <<buffer, mask_map, cursor_pos, num_read>>]_vars

\* a character that no element takes: it does not match the current element
\* with room left, and the current element's minimum is unmet or try_advance
\* finds no later element
MaskRejects(m, mm, ch) ==
    LET cs == current_mask_state(m, mm)
        advance_from == IF cs.idx < Len(m) THEN cs.idx + 1 ELSE Len(m)
    IN /\ ~(/\ can_accept_more(m, cs.idx, cs.count)
            /\ cs.idx < Len(m)
            /\ mask_char_matches(m[cs.idx + 1], ch))
       /\ \/ ~min_satisfied(m, cs.idx, cs.count)
          \/ try_advance(m, advance_from, ch) = -1

\* C12: in mask mode a character key that neither matches the current
\* element with room left nor can be placed by advancing changes nothing:
\* buffer and mask_map are as before, no literal is spliced in, and nothing
\* is written to the terminal or to standard output.
C12_RejectedKeyNoEffect ==
    [][\A k \in MaskKeys :
          (/\ k.t = "Char"
           /\ MaskRejects(mask, mask_map, case_map(k.b))
           /\ MaskKey(k))
          => UNCHANGED <<buffer, mask_map, tty, out>>]_vars

\* a character passed the filters and was rejected by the automaton after an
\* attempt to advance over a literal element that is not yet in the buffer
C12_Witness ==
    LET cs == current_mask_state(mask, mask_map)
    IN /\ key.t = "Char"
       /\ pc = "top"
       /\ passes_filters(case_map(key.b))
       /\ MaskRejects(mask, mask_map, case_map(key.b))
       /\ min_satisfied(mask, cs.idx, cs.count)
       /\ \E i \in (cs.idx + 2)..Len(mask) : IsLiteral(mask[i])
       /\ ~flags.silent

\* C13: a read_key call whose poll after 0x1B reported no byte returns the
\* bare Escape key and has consumed the 0x1B and nothing else; no call goes
\* on reading after such a poll.
C13_BareEscape ==
    /\ ~rk.nobyte
    /\ \A i \in 1..Len(keys) :
           keys[i].nobyte => (keys[i].key = Key("Escape") /\ keys[i].taken = <<27>>)

\* Escape was returned after a poll without a byte, and the byte that came
\* later went to the next call
C13_Witness ==
    /\ Len(keys) >= 2
    /\ keys[1].nobyte
    /\ keys[1].key = Key("Escape")
    /\ keys[2].taken # <<>>

\* the keys the claim C14 names for the final bytes after ESC '['
CsiFinalKey(b) ==
    CASE b = 65 -> Key("Up") [] b = 66 -> Key("Down") [] b = 67 -> Key("Right")
      [] b = 68 -> Key("Left") [] b = 72 -> Key("Home") [] b = 70 -> Key("End")
      [] OTHER -> NoKey

\* the keys the claim C14 names for ESC '[' digit '~'
CsiTildeKey(b) ==
    CASE b = 49 -> Key("Home") [] b = 51 -> Key("Delete") [] b = 52 -> Key("End")
      [] OTHER -> NoKey

\* s starts with ESC '[' x, x one of A B C D H F
StartsFinal(s) ==
    Len(s) >= 3 /\ s[1] = 27 /\ s[2] = 91 /\ s[3] \in {65, 66, 67, 68, 72, 70}

\* s starts with ESC '[' d '~', d one of 1 3 4
StartsTilde(s) ==
    Len(s) >= 4 /\ s[1] = 27 /\ s[2] = 91 /\ s[3] \in {49, 51, 52} /\ s[4] = 126

\* C14: a call that found ESC '[' x (x in A B C D H F) queued, or that read
\* these bytes one by one, returns Up, Down, Right, Left, Home or End and has
\* consumed exactly the three bytes; for ESC '[' d '~' (d in 1 3 4) it returns
\* Home, Delete or End and has consumed exactly the four bytes.
C14_SequencesDecoded ==
    \A i \in 1..Len(keys) :
        LET r == keys[i] IN
        /\ \A s \in {r.had, r.taken} :
               /\ StartsFinal(s) =>
                      (r.key = CsiFinalKey(s[3]) /\ r.taken = SubSeq(s, 1, 3))
               /\ StartsTilde(s) =>
                      (r.key = CsiTildeKey(s[3]) /\ r.taken = SubSeq(s, 1, 4))

\* ESC '[' '3' '~' was decoded as Delete by one call
C14_Witness ==
    \E i \in 1..Len(keys) :
        keys[i].key = Key("Delete") /\ keys[i].taken = <<27, 91, 51, 126>>

\* C15 as claimed: a call that has read 0x1B returns, whatever the stream
\* delivers afterwards.
C15_CallReturns == (rk.at \notin {"idle", "b"}) ~> (rk.at = "idle")

\* length of the control sequence ESC '[' parameters intermediates final at
\* the start of s, 0 if s does not start with a complete one
RECURSIVE CsiEnd(_, _, _)
CsiEnd(s, i, inter) ==
    IF i > Len(s) THEN 0
    ELSE IF s[i] >= 64 /\ s[i] <= 126 THEN i
    ELSE IF s[i] >= 48 /\ s[i] <= 63 /\ ~inter THEN CsiEnd(s, i + 1, FALSE)
    ELSE IF s[i] >= 32 /\ s[i] <= 47 THEN CsiEnd(s, i + 1, TRUE)
    ELSE 0

CsiLen(s) == IF Len(s) >= 3 /\ s[1] = 27 /\ s[2] = 91 THEN CsiEnd(s, 3, FALSE) ELSE 0

\* C16 as claimed: a call that found a complete control sequence queued
\* consumes all of it, so no byte of it is left for the next call.
C16_SequenceConsumed ==
    \A i \in 1..Len(keys) :
        CsiLen(keys[i].had) > 0 =>
            keys[i].taken = SubSeq(keys[i].had, 1, CsiLen(keys[i].had))

\* the key the claim C17 names for a first byte other than 0x1B
ControlKey(b) ==
    CASE b = 1 -> Key("Home") [] b = 2 -> Key("Left") [] b = 4 -> Key("Delete")
      [] b = 5 -> Key("End") [] b = 6 -> Key("Right") [] b = 11 -> Key("KillToEnd")
      [] b = 21 -> Key("KillToStart") [] b = 23 -> Key("KillWordBack")
      [] b = 9 -> Key("Tab") [] b = 127 -> Key("Backspace") [] b = 8 -> Key("Backspace")
      [] b = 10 -> Key("Enter") [] b = 13 -> Key("Enter")
      [] OTHER -> Char(b)

\* C17: a call whose first byte is not 0x1B returns the key of that byte
\* (Char with the same byte when it is no control byte of the table) and has
\* consumed that one byte.
C17_SingleByteKeys ==
    \A i \in 1..Len(keys) :
        LET r == keys[i] IN
        (r.taken # <<>> /\ r.taken[1] # 27) =>
            (r.key = ControlKey(r.taken[1]) /\ Len(r.taken) = 1)

\* 0x17 was read and returned as KillWordBack
C17_Witness ==
    /\ keys # <<>>
    /\ Last(keys).taken = <<23>>
    /\ Last(keys).key = Key("KillWordBack")

\* C18 as claimed: in the line-editing loop with redraw on, after every key
\* (Enter without -r included) the terminal shows the buffer from the start
\* of the input field and its cursor stands at column cursor_pos of that row.
C18_TerminalInSync ==
    (pc # "done" /\ ~flags.silent) =>
        (tty.lines = <<buffer>> /\ tty.row = 1 /\ tty.col = cursor_pos)

\* the default is returned on this path: -d given and nothing typed
DefaultApplies == flags.dflt /\ buffer = <<>> /\ default_string # <<>>

\* C19 as claimed: the result of run_mask_mode is -2 whenever the loop ends
\* on the timed-out flag, -1 whenever it ends by Escape, and a count (>= 0,
\* the length of the returned buffer) only when it ends by auto-completion
\* or by Enter acceptance.
C19_ResultTellsEnding ==
    [][/\ MaskTimeout => retval' = <<-2>>
       /\ MaskKey(Key("Escape")) => retval' = <<-1>>
       /\ (retval = <<>> /\ retval' # <<>> /\ retval'[1] >= 0) =>
              (how' \in {"complete", "enter"} /\ retval'[1] = Len(buffer'))]_vars

\* C19 as amended: -2 when the loop ends on the timed-out flag, unless the
\* default applies (-d given, nothing typed), in which case the length of
\* the default is returned; -1 when it ends by Escape; the length of the
\* returned buffer when it ends by auto-completion, by Enter acceptance or by
\* a failed read; the length of the default when Enter returns the default.
C19_ResultByEnding ==
    [][/\ MaskTimeout =>
              retval' = (IF DefaultApplies THEN <<Len(default_string)>> ELSE <<-2>>)
       /\ MaskKey(Key("Escape")) => retval' = <<-1>>
       /\ (MaskComplete \/ MaskReadError) => retval' = <<Len(buffer')>>
       /\ (MaskKey(Key("Enter")) /\ pc' = "done") =>
              retval' = (IF DefaultApplies THEN <<Len(default_string)>>
                         ELSE <<Len(buffer')>>)
       /\ (retval = <<>> /\ retval' # <<>>) =>
              (MaskTimeout \/ MaskComplete \/ MaskReadError
                   \/ MaskKey(Key("Escape")) \/ MaskKey(Key("Enter")))]_vars

\* the timed-out flag ended the loop and the default's length was returned
C19_Witness ==
    /\ TIMED_OUT
    /\ key = NoKey
    /\ how = "default"
    /\ retval = <<Len(default_string)>>
    /\ retval # <<-2>>

\* C20: Escape, in any state of mask mode, ends the read with -1 and writes
\* nothing to the output; with echo on, the characters shown are as many as
\* the buffer holds, the cursor moves left by exactly that number and the
\* row is cleared from there, so nothing of the buffer stays visible.
C20_EscapeAborts ==
    [][MaskKey(Key("Escape")) =>
          /\ retval' = <<-1>>
          /\ pc' = "done"
          /\ out' = out
          /\ flags.silent => tty' = tty
          /\ ~flags.silent =>
                 /\ Len(tty.lines[tty.row]) = Len(buffer)
                 /\ tty'.col = tty.col - Len(buffer)
                 /\ tty'.col = 0
                 /\ tty'.row = tty.row
                 /\ tty'.lines[tty'.row] = <<>>]_vars

\* Escape ended the read with two or more characters on the terminal, which
\* are gone
C20_Witness ==
    /\ how = "escape"
    /\ ~flags.silent
    /\ Len(buffer) >= 2
    /\ tty.lines = << <<>> >>
    /\ retval = <<-1>>


----------------------------------------------------------------------------
(* The loops on a byte stream                                              *)

\* an iteration stands at its check of the flag: the loop condition (main) or
\* the completion test (mask mode) has let it through
AtFlagCheck ==
    /\ pc = "top"
    /\ IF InMaskMode THEN ~mask_complete(mask, buffer, mask_map) ELSE num_read < how_many

\* C21: the timed-out flag is polled before every read, in the line-editing
\* loop and in the mask loop.  An iteration that finds the flag set at its
\* check reads no key and changes no buffer: its only step ends the loop in the
\* timeout branch.  And a read ends only with what read_key returned, a key or
\* an error; the interrupted-call error comes with the flag set and with
\* nothing else.
C21_FlagPolledBeforeRead ==
    [][ /\ (AtFlagCheck /\ TIMED_OUT /\ <<loopvars, rk, keys>>' # <<loopvars, rk, keys>>)
            => /\ pc' = "done"
               /\ how' \in {"timeout", "default"}
               /\ buffer' = buffer /\ mask_map' = mask_map /\ cursor_pos' = cursor_pos
               /\ rk' = rk /\ keys' = keys /\ fed' = fed
        /\ (pc = "read" /\ pc' # "read")
            => /\ Len(keys) > Len(fed)
               /\ fed' = Append(fed, Last(keys).key)
               /\ Last(keys).key.t = "Interrupted" => TIMED_OUT ]_vars

\* a read was interrupted after a key had been accepted, and the next
\* iteration ended the loop by timeout
C21_Witness ==
    /\ how = "timeout"
    /\ buffer # <<>>
    /\ \E i \in 1..Len(fed) : fed[i].t = "Interrupted"

\* no byte is queued and none will ever arrive; the descriptor is open
Quiet == stdin.inq = <<>> /\ stdin.later = <<>> /\ ~stdin.closed

\* C22 as claimed: once the alarm has fired while a loop runs, wherever the
\* loop stood, and no byte arrives any more, the loop eventually ends (unless
\* the descriptor reaches its end first).
C22_AlarmEndsLoop ==
    (TIMED_OUT /\ pc # "done" /\ Quiet) ~> (pc = "done" \/ stdin.closed)

\* the step is the alarm's and it interrupts the system call read_key stands in
Interrupts == ~TIMED_OUT /\ TIMED_OUT' /\ rk.at # "idle" /\ rk' # rk

\* C23 as claimed: an interrupted system call of a key read is transient,
\* whichever byte of the key it was for: the call returns the interrupted-call
\* error and no key, so that nothing is delivered to the loop in place of the
\* key the bytes spell, and buffer, cursor and mask_map stay as they were.
C23_InterruptIsTransient ==
    [][Interrupts => /\ keys' = Append(keys, [key |-> Err("Interrupted"), taken |-> rk.taken,
                                              had |-> rk.had, nobyte |-> rk.nobyte])
                     /\ buffer' = buffer /\ cursor_pos' = cursor_pos /\ mask_map' = mask_map]_vars

\* read_key has returned end of input or an I/O error that is no interruption
ReadFailed ==
    /\ pc = "read"
    /\ rk.at = "idle"
    /\ Len(keys) > Len(fed)
    /\ Last(keys).key.t \in {"UnexpectedEof", "Other"}

----------------------------------------------------------------------------
(* Compiling the mask                                                      *)

\* the mask string read as the specification describes it: a backslash and
\* the character after it, or a character that names no class, is a literal
\* ("lit"; "none" for a backslash with nothing after it); a class letter or a
\* bracket expression is a class; '*', '+', '?' anywhere else is a quantifier
RECURSIVE MaskTokens(_, _)
MaskTokens(str, i) ==
    IF i > Len(str) THEN <<>>
    ELSE IF str[i] = 92
         THEN <<IF i + 1 <= Len(str) THEN "lit" ELSE "none">> \o MaskTokens(str, i + 2)
    ELSE IF str[i] = 91
         THEN LET j == ScanBracket(str, IF i + 1 <= Len(str) /\ str[i + 1] \in {94, 93}
                                        THEN i + 2 ELSE i + 1)
              IN IF j > Len(str) THEN <<"unclosed">>
                 ELSE <<"class">> \o MaskTokens(str, j + 1)
    ELSE IF IsQuantChar(str[i]) THEN <<QuantOf(str[i])>> \o MaskTokens(str, i + 1)
    ELSE <<IF ClassOfChar(str[i]) = "Literal" THEN "lit" ELSE "class">>
             \o MaskTokens(str, i + 1)

IsQuantToken(t) == t \in {"Star", "Plus", "Optional"}

\* a quantifier at the start, directly after a literal or after a quantifier
MisplacedQuantifier(ts) ==
    \E k \in 1..Len(ts) :
        /\ IsQuantToken(ts[k])
        /\ k = 1 \/ ts[k - 1] \in {"lit", "none"} \/ IsQuantToken(ts[k - 1])

\* the elements the tokens stand for: literal or not, and the quantifier
\* directly after (Exactly-One when there is none)
RECURSIVE ElementsOfTokens(_, _)
ElementsOfTokens(ts, k) ==
    IF k > Len(ts) THEN <<>>
    ELSE IF ts[k] \in {"lit", "class"}
         THEN <<[literal |-> ts[k] = "lit",
                 quantifier |-> IF k < Len(ts) /\ IsQuantToken(ts[k + 1])
                                THEN ts[k + 1] ELSE "One"]>>
                 \o ElementsOfTokens(ts, k + 1)
         ELSE ElementsOfTokens(ts, k + 1)

\* C25: parse_mask never yields a Literal element with a quantifier other
\* than Exactly-One.  A quantifier character directly after a literal (plain
\* or backslash-escaped), at the start of the mask or directly after another
\* quantifier is fatal and no mask is returned; in a mask that is returned,
\* every quantifier stands directly after a non-literal element and is that
\* element's quantifier, and every other element is Exactly-One.
C25_QuantifiersOnlyOnClasses ==
    pc # "parse" =>
        LET ts == MaskTokens(mask_string, 1) IN
        /\ \A i \in 1..Len(mask) : IsLiteral(mask[i]) => mask[i].quantifier = "One"
        /\ MisplacedQuantifier(ts) => (how = "fatal" /\ mask = <<>> /\ retval = <<255>>)
        /\ pc = "top" =>
              [i \in 1..Len(mask) |-> [literal |-> IsLiteral(mask[i]),
                                       quantifier |-> mask[i].quantifier]]
                  = ElementsOfTokens(ts, 1)

\* "\**" was refused: a quantifier after the escaped literal '*'
C25_Witness ==
    /\ mask_string = <<92, 42, 42>>
    /\ how = "fatal"

----------------------------------------------------------------------------
(* Mask mode: acceptance and Backspace                                     *)

\* the element has room: Exactly-One and ZeroOrOne with nothing consumed,
\* ZeroOrMore and OneOrMore always
HasRoom(elem, count) == elem.quantifier \in {"Star", "Plus"} \/ count = 0

\* how many Literal elements stand directly after the (0-based) element idx
LiteralRun(m, idx) ==
    CHOOSE n \in 0..(Len(m) - idx - 1) :
        /\ \A j \in 1..n : IsLiteral(m[idx + 1 + j])
        /\ idx + 1 + n = Len(m) \/ ~IsLiteral(m[idx + 2 + n])

\* C26: in mask mode a character that matches the class of the current
\* element while that element has room is recorded at the current index; if
\* the element is Exactly-One or ZeroOrOne, the run of consecutive Literal
\* elements directly after it, and nothing more, is appended to buffer and
\* mask_map after the character; otherwise the character alone is appended.
\* (The buffer holds bytes: what is appended for a character is `ch as u8`.)
C26_GreedyAtCurrent ==
    [][\A k \in MaskKeys :
          LET ch == case_map(k.b)
              cs == current_mask_state(mask, mask_map)
              n == IF mask[cs.idx + 1].quantifier \in {"One", "Optional"}
                   THEN LiteralRun(mask, cs.idx) ELSE 0
          IN (/\ k.t = "Char"
              /\ passes_filters(ch)
              /\ mask_char_matches(mask[cs.idx + 1], ch)
              /\ HasRoom(mask[cs.idx + 1], cs.count)
              /\ MaskKey(k))
             => /\ buffer' = buffer \o <<as_u8(ch)>>
                                  \o [j \in 1..n |-> as_u8(mask[cs.idx + 1 + j].lit)]
                /\ mask_map' = mask_map \o <<cs.idx>> \o [j \in 1..n |-> cs.idx + j]]_vars

\* '5' was accepted at the ZeroOrOne element of "n?--l*" and both literals
\* after it were spliced in
C26_Witness ==
    /\ Len(mask) = 4 /\ mask[1].quantifier = "Optional"
    /\ key = Char(53)
    /\ pc = "top"
    /\ buffer = <<53, 45, 45>>
    /\ mask_map = <<0, 1, 2>>

\* the (0-based) non-literal elements after idx whose class matches ch
LaterMatches(m, idx, ch) ==
    {j \in (idx + 1)..(Len(m) - 1) : ~IsLiteral(m[j + 1]) /\ mask_char_matches(m[j + 1], ch)}

\* every non-literal element strictly between idx and j has minimum 0
Skippable(m, idx, j) ==
    \A i \in (idx + 1)..(j - 1) : IsLiteral(m[i + 1]) \/ QuantMin(m[i + 1].quantifier) = 0

\* the (0-based) Literal elements strictly between idx and j, in mask order
LiteralsBetween(m, idx, j) ==
    SelectSeq([i \in 1..(j - idx - 1) |-> idx + i], LAMBDA i : IsLiteral(m[i + 1]))

\* C27: in mask mode, when the character is not accepted at the current
\* element and that element's minimum is met, it is accepted at the first
\* later non-literal element whose class matches, provided every non-literal
\* element between has minimum 0, and is rejected otherwise.  On the advance
\* the Literal elements strictly between the old and the new index are
\* appended to buffer and mask_map once each and in mask order, then the
\* character, then the literal run after the new element if that element is
\* Exactly-One or ZeroOrOne.
C27_AdvanceToLaterElement ==
    [][\A k \in MaskKeys :
          LET ch == case_map(k.b)
              cs == current_mask_state(mask, mask_map)
              cur == mask[cs.idx + 1]
              later == LaterMatches(mask, cs.idx, ch)
              j == CHOOSE x \in later : \A y \in later : x <= y
              lits == LiteralsBetween(mask, cs.idx, j)
              n == IF mask[j + 1].quantifier \in {"One", "Optional"}
                   THEN LiteralRun(mask, j) ELSE 0
          IN (/\ k.t = "Char"
              /\ passes_filters(ch)
              /\ ~(mask_char_matches(cur, ch) /\ HasRoom(cur, cs.count))
              /\ cs.count >= QuantMin(cur.quantifier)
              /\ MaskKey(k))
             => IF later = {} \/ ~Skippable(mask, cs.idx, j)
                THEN UNCHANGED <<buffer, mask_map>>
                ELSE /\ buffer' = buffer \o [i \in 1..Len(lits) |-> as_u8(mask[lits[i] + 1].lit)]
                                    \o <<as_u8(ch)>>
                                    \o [i \in 1..n |-> as_u8(mask[j + 1 + i].lit)]
                     /\ mask_map' = mask_map \o lits \o <<j>> \o [i \in 1..n |-> j + i]]_vars

\* 'a' was typed into the empty field of "n?--l*": the automaton advanced
\* over the empty ZeroOrOne element to the letters and spliced both literals
\* in before the character
C27_Witness ==
    /\ Len(mask) = 4 /\ mask[1].quantifier = "Optional"
    /\ key = Char(97)
    /\ pc = "top"
    /\ buffer = <<45, 45, 97>>
    /\ mask_map = <<1, 2, 3>>

\* how many entries at the end of the map mm belong to Literal elements
TrailingLiterals(m, mm) ==
    CHOOSE r \in 0..Len(mm) :
        /\ \A i \in (Len(mm) - r + 1)..Len(mm) : IsLiteral(m[mm[i] + 1])
        /\ r = Len(mm) \/ ~IsLiteral(m[mm[Len(mm) - r] + 1])

\* C28: in mask mode, Backspace on a non-empty buffer removes the last
\* buffer/mask_map entry and then every entry of a Literal element that this
\* exposes at the end, up to the first entry of a non-literal element or to
\* the empty buffer; Backspace on an empty buffer changes nothing.
C28_BackspaceChainDeletes ==
    [][MaskKey(Key("Backspace"))
          => IF buffer = <<>>
             THEN UNCHANGED <<buffer, mask_map, tty, out>>
             ELSE LET keep == Len(buffer) - 1 - TrailingLiterals(mask, Front(mask_map))
                  IN /\ buffer' = SubSeq(buffer, 1, keep)
                     /\ mask_map' = SubSeq(mask_map, 1, keep)]_vars

\* Backspace after '5' in "n?--l*" removed the two literals after the digit
\* and left the digit
C28_Witness ==
    /\ Len(mask) = 4 /\ mask[1].quantifier = "Optional"
    /\ key = Key("Backspace")
    /\ pc = "top"
    /\ buffer = <<53>>
    /\ mask_map = <<0>>

----------------------------------------------------------------------------
(* The line-editing loop: insertion and deletion                           *)

\* C29: in the line-editing loop a character key that passes the include and
\* exclude filters inserts one byte, the case-mapped character, at the old
\* cursor position; the bytes before the cursor stay where they are, the bytes
\* from the cursor on move up by one, and the cursor advances by one.  A
\* character the filters refuse is not inserted.
C29_InsertAtCursor ==
    [][\A k \in MainKeys :
          (k.t = "Char" /\ erase_active /\ MainKey(k))
          => IF passes_filters(k.b)
             THEN /\ Len(buffer') = Len(buffer) + 1
                  /\ \A i \in 1..cursor_pos : buffer'[i] = buffer[i]
                  /\ buffer'[cursor_pos + 1] = as_u8(case_map(k.b))
                  /\ \A i \in (cursor_pos + 1)..Len(buffer) : buffer'[i + 1] = buffer[i]
                  /\ cursor_pos' = cursor_pos + 1
             ELSE UNCHANGED <<buffer, cursor_pos>>]_vars

\* under -U, 'x' was typed in front of the byte already there and went in
\* upper-cased at the cursor
C29_Witness ==
    /\ flags.upper
    /\ key = Char(120)
    /\ buffer = <<88, 65>>
    /\ cursor_pos = 1

\* the sequence s without its i-th element (1-based)
Without(s, i) == [j \in 1..(Len(s) - 1) |-> IF j < i THEN s[j] ELSE s[j + 1]]

\* C30: in the line-editing loop Backspace with the cursor after the start
\* removes the byte before the cursor and nothing else and moves the cursor
\* back by one; Delete with the cursor before the end removes the byte at the
\* cursor and nothing else and leaves the cursor; Backspace at the start and
\* Delete at the end change neither buffer, cursor nor count.
C30_BackspaceAndDelete ==
    [][(pc = "read" /\ erase_active /\ MainKey(key'))
          => /\ key'.t = "Backspace" =>
                  IF cursor_pos > 0
                  THEN /\ buffer' = Without(buffer, cursor_pos)
                       /\ cursor_pos' = cursor_pos - 1
                  ELSE UNCHANGED <<buffer, cursor_pos, num_read>>
             /\ key'.t = "Delete" =>
                  IF cursor_pos < Len(buffer)
                  THEN /\ buffer' = Without(buffer, cursor_pos + 1)
                       /\ cursor_pos' = cursor_pos
                  ELSE UNCHANGED <<buffer, cursor_pos, num_read>>]_vars

\* "5a", the cursor moved left by one, Backspace: the '5' before the cursor is
\* gone, the 'a' after it is kept
C30_Witness ==
    /\ ~InMaskMode
    /\ fed = <<Char(53), Char(97), Key("Left"), Key("Backspace")>>
    /\ buffer = <<97>>
    /\ cursor_pos = 0
----------------------------------------------------------------------------
(* The line-editing loop: cursor movement and the kill keys                *)

\* C31: in the line-editing loop Left, Right, Home and End change neither the
\* buffer nor the count of characters read; Left moves the cursor one place
\* back unless it is at 0, Right one place on unless it is at the end of the
\* buffer, Home puts it at 0 and End at the length of the buffer.
C31_CursorKeys ==
    [][(pc = "read" /\ erase_active /\ MainKey(key'))
          => /\ key'.t \in {"Left", "Right", "Home", "End"}
                  => UNCHANGED <<buffer, num_read>>
             /\ key'.t = "Left"
                  => cursor_pos' = IF cursor_pos > 0 THEN cursor_pos - 1 ELSE 0
             /\ key'.t = "Right"
                  => cursor_pos' = IF cursor_pos < Len(buffer) THEN cursor_pos + 1
                                   ELSE Len(buffer)
             /\ key'.t = "Home" => cursor_pos' = 0
             /\ key'.t = "End" => cursor_pos' = Len(buffer)]_vars

\* "5a", then Home from the end of the two bytes: the cursor is at 0 and the
\* buffer and the count are as they were
C31_Witness ==
    /\ ~InMaskMode
    /\ fed = <<Char(53), Char(97), Key("Home")>>
    /\ buffer = <<53, 97>>
    /\ num_read = 2
    /\ cursor_pos = 0

\* C32: in the line-editing loop KillToEnd leaves the bytes before the cursor,
\* in order, as the whole buffer and does not move the cursor; KillToStart
\* leaves the bytes from the cursor on, in order, as the whole buffer and puts
\* the cursor at 0.
C32_KillToEndAndStart ==
    [][(pc = "read" /\ erase_active /\ MainKey(key'))
          => /\ key'.t = "KillToEnd" =>
                  /\ buffer' = [i \in 1..cursor_pos |-> buffer[i]]
                  /\ cursor_pos' = cursor_pos
             /\ key'.t = "KillToStart" =>
                  /\ buffer' = [i \in 1..(Len(buffer) - cursor_pos) |->
                                   buffer[cursor_pos + i]]
                  /\ cursor_pos' = 0]_vars

\* "5a", the cursor moved left by one, KillToStart: the '5' is gone, the 'a'
\* is the buffer and the cursor is at 0
C32_Witness ==
    /\ ~InMaskMode
    /\ fed = <<Char(53), Char(97), Key("Left"), Key("KillToStart")>>
    /\ buffer = <<97>>
    /\ cursor_pos = 0

\* the start of the run of spaces that ends at position pos of buf
SpacesStart(buf, pos) ==
    CHOOSE q \in 0..pos :
        /\ \A i \in (q + 1)..pos : buf[i] = 32
        /\ q = 0 \/ buf[q] # 32

\* the start of the run of bytes other than spaces that ends at position pos
WordStart(buf, pos) ==
    CHOOSE p \in 0..pos :
        /\ \A i \in (p + 1)..pos : buf[i] # 32
        /\ p = 0 \/ buf[p] = 32

\* C33: in the line-editing loop KillWordBack removes the bytes between p and
\* the cursor, where p is reached from the cursor by going back over all the
\* spaces and then over all the bytes that are not spaces; the bytes before p
\* and the bytes from the old cursor on are kept in order, and the cursor
\* becomes p.
C33_KillWordBack ==
    [][(pc = "read" /\ erase_active /\ MainKey(key') /\ key'.t = "KillWordBack")
          => LET p == WordStart(buffer, SpacesStart(buffer, cursor_pos))
             IN /\ buffer' = SubSeq(buffer, 1, p)
                                \o SubSeq(buffer, cursor_pos + 1, Len(buffer))
                /\ cursor_pos' = p]_vars

\* "5 " and KillWordBack at the end: the space and the word before it are gone
C33_Witness ==
    /\ ~InMaskMode
    /\ fed = <<Char(53), Char(32), Key("KillWordBack")>>
    /\ buffer = <<>>
    /\ cursor_pos = 0
----------------------------------------------------------------------------
(* read_key: failed reads                                                  *)

\* a read of the call in progress returns 0 (end of input) or fails with an
\* errno other than EINTR
ReadFails == ReadByteEof \/ ReadByteFail

\* C34 as claimed: whenever a read that read_key performs for a key (of the
\* first byte or of a follow-up byte of an escape sequence) fails for a reason
\* other than interruption, the call returns an error: UnexpectedEof at the end
\* of the input, another kind for any other failure, and no key.
C34_ReadFailureIsReturned ==
    [][ReadFails
          => /\ Len(keys') = Len(keys) + 1
             /\ ReadByteEof => Last(keys').key = Err("UnexpectedEof")
             /\ (ReadByteFail /\ ~ReadByteEof) => Last(keys').key = Err("Other")]_vars
----------------------------------------------------------------------------
(* Mask mode: the buffer against the mask                                  *)

\* C35 as claimed: in every reachable state of mask mode the buffer is a
\* well-formed partial match of the mask: mask_map has one entry per byte and
\* is non-decreasing, and every byte buffer[i] matches the class of the mask
\* element mask_map[i] (for a Literal element it is the literal's character).
C35_BufferMatchesMask ==
    InMaskMode
        => /\ Len(mask_map) = Len(buffer)
           /\ \A i \in 1..(Len(mask_map) - 1) : mask_map[i] <= mask_map[i + 1]
           /\ \A i \in 1..Len(buffer) :
                  /\ mask_map[i] \in 0..(Len(mask) - 1)
                  /\ mask_char_matches(mask[mask_map[i] + 1], buffer[i])

\* buf is a complete match of the mask m: its bytes can be dealt out to the
\* elements in mask order so that every Literal gets exactly its character and
\* every other element gets matching characters, at least its minimum and, for
\* One and Optional, at most one
CompleteMatch(m, buf) ==
    \E f \in [1..Len(buf) -> 1..Len(m)] :
        /\ \A i \in 1..(Len(buf) - 1) : f[i] <= f[i + 1]
        /\ \A i \in 1..Len(buf) : mask_char_matches(m[f[i]], buf[i])
        /\ \A j \in 1..Len(m) :
               LET n == Cardinality({i \in 1..Len(buf) : f[i] = j})
               IN /\ n >= (IF IsLiteral(m[j]) THEN 1 ELSE QuantMin(m[j].quantifier))
                  /\ m[j].quantifier \in {"One", "Optional"} => n <= 1

\* C36 as claimed: whenever run_mask_mode ends by normal completion
\* (auto-completion or acceptance by Enter) and returns a count, the returned
\* buffer is a complete match of the whole mask.
C36_CompletionIsFullMatch ==
    (InMaskMode /\ pc = "done" /\ how \in {"complete", "enter"})
        => CompleteMatch(mask, buffer)
----------------------------------------------------------------------------
(* The main reading loop: the count                                        *)

\* C37: in the main reading loop, with line editing on or off, num_read is
\* the length of the buffer after every key and never exceeds how_many; no
\* key is read once num_read has reached how_many; and when the loop is left
\* with a count, the count returned is the number of bytes in the buffer.
C37_CountIsBufferLength ==
    ~InMaskMode
        => /\ num_read = Len(buffer)
           /\ num_read <= how_many
           /\ pc = "read" => num_read < how_many
           /\ (pc = "done" /\ how \in {"complete", "enter", "eof"})
                  => retval = <<Len(buffer)>>

\* without line editing and with a count of two: 'a' and the raw byte of
\* Backspace filled the buffer and the loop was left with the count 2
C37_Witness ==
    /\ ~InMaskMode
    /\ ~erase_active
    /\ how_many = 2
    /\ buffer = <<97, 127>>
    /\ num_read = 2
    /\ pc = "done"
    /\ how = "complete"
    /\ retval = <<2>>
----------------------------------------------------------------------------
(* The filters and the stored byte                                         *)

\* C38 as claimed: every byte that a character keystroke puts into the buffer
\* of the main reading loop (line editing on or off), as it is stored, that
\* is after the case mapping, matches the include filter when one is active
\* and does not match the exclude filter when one is active.
C38_StoredByteObeysFilters ==
    [][\A k \in MainKeys :
          (k.t = "Char" /\ MainKey(k) /\ Len(buffer') = Len(buffer) + 1)
          => LET stored == IF erase_active THEN buffer'[cursor_pos + 1]
                           ELSE Last(buffer')
             IN passes_filters(stored)]_vars
----------------------------------------------------------------------------
(* Mask mode: the leading literals after Backspace                         *)

\* the number of Literal elements at the start of the mask m
RECURSIVE LeadingLiterals(_)
LeadingLiterals(m) ==
    IF m # <<>> /\ IsLiteral(m[1]) THEN 1 + LeadingLiterals(Tail(m)) ELSE 0

\* C39 as claimed: for a mask that starts with Literal elements, once
\* Backspace has emptied the buffer, a key whose character matches the first
\* element that is no Literal is accepted, and the buffer then holds the
\* leading literals followed by that character.
C39_LeadingLiteralsRestored ==
    [][\A k \in MaskKeys :
          LET n == LeadingLiterals(mask)
              ch == case_map(k.b)
          IN (/\ k.t = "Char"
              /\ n > 0 /\ n < Len(mask)
              /\ buffer = <<>>
              /\ passes_filters(ch)
              /\ mask_char_matches(mask[n + 1], ch)
              /\ MaskKey(k))
             => /\ Len(buffer') >= n + 1
                /\ \A i \in 1..n : buffer'[i] = as_u8(mask[i].lit)
                /\ buffer'[n + 1] = as_u8(ch)]_vars
----------------------------------------------------------------------------
(* The terminal's mode at exit                                             *)

\* C40 as claimed: on every path on which the process exits after init_term
\* has put the terminal into raw mode (normal completion, timeout, default,
\* Escape, end of input, a mask that does not compile, a termination signal)
\* the terminal's original mode has been restored before the exit.
C40_TerminalRestoredAtExit ==
    pc = "done" => termios = "orig"
====
